---- MODULE Spec2Model ----
(***************************************************************************)
(* The LHT diagnostic engine of ramah-api (src/lht_engine.py): the static  *)
(* tables, the eight analyses and the TELOS-RUN pipeline that threads      *)
(* them.  Python strings are TLA+ strings; Len, SubSeq and \o act on them  *)
(* character by character, so substring tests and positions are those of   *)
(* the Python code.  With it: the ANALYZE operation of the Ramah interface *)
(* (src/ezekiel_memory_engine_lht.py), which resolves a reference in the   *)
(* Layer 0 verse store and runs the pipeline on the text, and the users    *)
(* REST API (src/rest_api.py) over its in-memory users_db.                 *)
(***************************************************************************)
EXTENDS Integers, Sequences, FiniteSets, TLC

VARIABLES engine, pc, op, args, result, history,
          layer0, lht_cache, users_db, uuid_count, now, request, response

\* The LHT engine and the call made on it.
engine_vars == <<engine, pc, op, args, result, history>>

\* The verse store the Ramah interface reads, and the memory engine's cache
\* of analyses.
ramah_vars == <<layer0, lht_cache>>

\* The REST API: its users, the ids and times it has drawn, and the request
\* it answered last.
rest_vars == <<users_db, uuid_count, now, request, response>>

vars == <<engine_vars, ramah_vars, rest_vars>>

(***************************************************************************)
(* Static tables.  A Python dict is a sequence of entries in insertion     *)
(* order, the order its iteration (and so every stable sort and every      *)
(* first-maximum choice) follows.                                          *)
(***************************************************************************)

\* class Quadrant(Enum): the four members in definition order.
Quadrant == <<"SW", "SE", "NE", "NW">>

\* class Spiral(Enum): member names indexed by their values 1..7.
Spiral ==
    <<"S1_CREATION", "S2_COVENANT", "S3_LAW", "S4_KINGSHIP", "S5_WISDOM",
      "S6_CHRIST", "S7_NEW_CREATION">>

S1_CREATION == 1
S2_COVENANT == 2
S3_LAW == 3
S4_KINGSHIP == 4
S5_WISDOM == 5
S6_CHRIST == 6
S7_NEW_CREATION == 7

SYMBOL_LEXICON ==
    <<
      [symbol |-> "LIGHT", meaning |-> "revelation / order", weight |-> 3,
       keywords |-> <<"light", "lamp", "shine", "brightness", "dawn">>],
      [symbol |-> "DARKNESS", meaning |-> "chaos / judgment", weight |-> 3,
       keywords |-> <<"darkness", "dark", "shadow", "night", "gloom">>],
      [symbol |-> "WATER", meaning |-> "life / chaos / cleansing", weight |-> 3,
       keywords |-> <<"water", "waters", "sea", "river", "flood", "rain">>],
      [symbol |-> "FIRE", meaning |-> "judgment / transformation", weight |-> 3,
       keywords |-> <<"fire", "flame", "burn", "consume">>],
      [symbol |-> "TREE", meaning |-> "life / choice / growth", weight |-> 2,
       keywords |-> <<"tree", "trees", "branch", "branches">>],
      [symbol |-> "GARDEN", meaning |-> "communion / presence", weight |-> 3,
       keywords |-> <<"garden", "eden", "paradise">>],
      [symbol |-> "MOUNTAIN", meaning |-> "revelation / covenant", weight |-> 3,
       keywords |-> <<"mountain", "mount", "hill", "zion", "sinai">>],
      [symbol |-> "WILDERNESS", meaning |-> "testing / exile", weight |-> 2,
       keywords |-> <<"wilderness", "desert", "waste">>],
      [symbol |-> "DUST", meaning |-> "mortality", weight |-> 2,
       keywords |-> <<"dust", "ashes", "clay">>],
      [symbol |-> "SPIRIT", meaning |-> "breath / empowerment", weight |-> 3,
       keywords |-> <<"spirit", "breath", "wind", "ghost">>],
      [symbol |-> "TEMPLE", meaning |-> "presence / structure", weight |-> 3,
       keywords |-> <<"temple", "sanctuary", "house of god">>],
      [symbol |-> "ALTAR", meaning |-> "sacrifice / mediation", weight |-> 3,
       keywords |-> <<"altar", "altars">>],
      [symbol |-> "VEIL", meaning |-> "separation / access", weight |-> 2,
       keywords |-> <<"veil", "curtain", "vail">>],
      [symbol |-> "LAMPSTAND", meaning |-> "illumination / Spirit", weight |-> 2,
       keywords |-> <<"lampstand", "candlestick", "menorah">>],
      [symbol |-> "BREAD", meaning |-> "communion / wisdom", weight |-> 3,
       keywords |-> <<"bread", "loaves", "manna">>],
      [symbol |-> "OIL", meaning |-> "anointing / Spirit", weight |-> 2,
       keywords |-> <<"oil", "anoint", "anointed">>],
      [symbol |-> "BLOOD", meaning |-> "covenant / atonement", weight |-> 3,
       keywords |-> <<"blood", "bloodshed">>],
      [symbol |-> "LAMB", meaning |-> "substitution / innocence", weight |-> 3,
       keywords |-> <<"lamb", "lambs", "sheep">>],
      [symbol |-> "PRIEST", meaning |-> "mediation", weight |-> 2,
       keywords |-> <<"priest", "priests", "priesthood">>],
      [symbol |-> "TABERNACLE", meaning |-> "mobile presence", weight |-> 2,
       keywords |-> <<"tabernacle", "tent", "dwelling">>],
      [symbol |-> "KING", meaning |-> "authority / rule", weight |-> 3,
       keywords |-> <<"king", "kings", "monarch">>],
      [symbol |-> "THRONE", meaning |-> "judgment / legitimacy", weight |-> 3,
       keywords |-> <<"throne", "thrones">>],
      [symbol |-> "SCEPTER", meaning |-> "rule / power", weight |-> 2,
       keywords |-> <<"scepter", "sceptre", "rod">>],
      [symbol |-> "CROWN", meaning |-> "honor / destiny", weight |-> 2,
       keywords |-> <<"crown", "crowns", "diadem">>],
      [symbol |-> "SWORD", meaning |-> "judgment / division", weight |-> 2,
       keywords |-> <<"sword", "swords", "blade">>],
      [symbol |-> "CITY", meaning |-> "people / identity", weight |-> 2,
       keywords |-> <<"city", "cities", "jerusalem", "zion">>],
      [symbol |-> "HOUSE", meaning |-> "lineage / establishment", weight |-> 2,
       keywords |-> <<"house", "household", "dynasty">>],
      [symbol |-> "GATE", meaning |-> "access / authority", weight |-> 2,
       keywords |-> <<"gate", "gates", "door", "doors">>],
      [symbol |-> "PATH", meaning |-> "direction / discipleship", weight |-> 2,
       keywords |-> <<"path", "way", "ways", "road">>],
      [symbol |-> "WINE", meaning |-> "joy / covenant blood", weight |-> 2,
       keywords |-> <<"wine", "drink">>],
      [symbol |-> "CUP", meaning |-> "destiny / suffering", weight |-> 2,
       keywords |-> <<"cup", "cups">>],
      [symbol |-> "VOICE", meaning |-> "revelation / calling", weight |-> 2,
       keywords |-> <<"voice", "voices", "cry">>],
      [symbol |-> "HAND", meaning |-> "action / authority", weight |-> 1,
       keywords |-> <<"hand", "hands">>],
      [symbol |-> "HEART", meaning |-> "intention / covenant interiorization", weight |-> 2,
       keywords |-> <<"heart", "hearts">>],
      [symbol |-> "SEED", meaning |-> "promise / future", weight |-> 3,
       keywords |-> <<"seed", "seeds", "offspring">>],
      [symbol |-> "EGYPT", meaning |-> "bondage", weight |-> 2,
       keywords |-> <<"egypt", "egyptian">>],
      [symbol |-> "BABYLON", meaning |-> "judgment / confusion", weight |-> 2,
       keywords |-> <<"babylon", "babylonian", "babel">>],
      [symbol |-> "EXILE", meaning |-> "fracture", weight |-> 2,
       keywords |-> <<"exile", "exiled", "captivity", "captive">>],
      [symbol |-> "RETURN", meaning |-> "restoration", weight |-> 2,
       keywords |-> <<"return", "returned", "restore">>],
      [symbol |-> "GATHERING", meaning |-> "redemption", weight |-> 2,
       keywords |-> <<"gather", "gathered", "gathering">>],
      [symbol |-> "CROSS", meaning |-> "death / obedience", weight |-> 3,
       keywords |-> <<"cross", "crucify", "crucified">>],
      [symbol |-> "RESURRECTION", meaning |-> "new creation", weight |-> 3,
       keywords |-> <<"resurrection", "risen", "rose", "raised">>],
      [symbol |-> "SHEPHERD", meaning |-> "guidance", weight |-> 2,
       keywords |-> <<"shepherd", "shepherds", "pastor">>],
      [symbol |-> "BRIDE", meaning |-> "people of God", weight |-> 2,
       keywords |-> <<"bride", "bridegroom", "marriage", "wedding">>],
      [symbol |-> "SON", meaning |-> "identity / inheritance", weight |-> 2,
       keywords |-> <<"son", "sons", "child">>],
      [symbol |-> "FIG", meaning |-> "covenant fruit / exposure", weight |-> 2,
       keywords |-> <<"fig", "figs">>],
      [symbol |-> "OLIVE", meaning |-> "anointing / endurance / Spirit", weight |-> 2,
       keywords |-> <<"olive", "olives", "olivet">>],
      [symbol |-> "VINE", meaning |-> "dependence / communion", weight |-> 3,
       keywords |-> <<"vine", "vines", "vineyard">>],
      [symbol |-> "FRUIT", meaning |-> "visible outcome", weight |-> 2,
       keywords |-> <<"fruit", "fruits", "harvest">>],
      [symbol |-> "THORNS", meaning |-> "curse / resistance", weight |-> 2,
       keywords |-> <<"thorns", "thistles", "briars">>]
    >>

QUADRANT_INDICATORS ==
    <<
      [quad |-> "SW",
       keywords |->
         <<"grave", "pit", "sheol", "death", "destroyed", "consumed", "darkness", "deep",
           "wrath", "curse", "famine", "plague", "finished", "gave up", "die", "perish">>,
       situations |-> <<"siege", "defeat", "lament", "catastrophe">>,
       tone |-> "despairing / overwhelmed"],
      [quad |-> "SE",
       keywords |->
         <<"sin", "idolatry", "rebellion", "transgression", "adultery", "division",
           "scattered", "broken", "forsaken", "betray">>,
       situations |-> <<"covenant breaking", "betrayal", "turning aside">>,
       tone |-> "accusatory / tense / warning"],
      [quad |-> "NE",
       keywords |->
         <<"law", "commandment", "statute", "teaching", "wisdom", "proverb", "prophecy",
           "thus saith", "vision", "behold", "looked", "revelation">>,
       situations |-> <<"God speaking", "law given", "teaching", "explaining">>,
       tone |-> "clarifying / didactic"],
      [quad |-> "NW",
       keywords |->
         <<"restore", "heal", "return", "gather", "rebuild", "plant", "comfort",
           "rejoice", "new", "renewed", "inheritance", "resurrection", "breath", "live",
           "life">>,
       situations |-> <<"return from exile", "healing", "resurrection", "fulfillment">>,
       tone |-> "hopeful / resolved / celebratory"]
    >>

(***************************************************************************)
(* Python's str and list operations, as the engine uses them.              *)
(***************************************************************************)

\* sub in s
In(sub, s) ==
    \E i \in 1..(Len(s) - Len(sub) + 1) : SubSeq(s, i, i + Len(sub) - 1) = sub

\* s.index(sub) raises ValueError
IndexRaises(s, sub) == ~In(sub, s)

\* s.index(sub), 0-based, for a sub that occurs in s
index(s, sub) ==
    CHOOSE p \in 0..(Len(s) - Len(sub)) :
        /\ SubSeq(s, p + 1, p + Len(sub)) = sub
        /\ \A q \in 0..(p - 1) : SubSeq(s, q + 1, q + Len(sub)) # sub

ASCII_UPPER == "ABCDEFGHIJKLMNOPQRSTUVWXYZ"
ASCII_LOWER == "abcdefghijklmnopqrstuvwxyz"

LowerChar(c) ==
    IF \E i \in 1..Len(ASCII_UPPER) : SubSeq(ASCII_UPPER, i, i) = c
    THEN LET i == CHOOSE j \in 1..Len(ASCII_UPPER) : SubSeq(ASCII_UPPER, j, j) = c
         IN  SubSeq(ASCII_LOWER, i, i)
    ELSE c

\* s.lower()
RECURSIVE lower(_)
lower(s) ==
    IF s = "" THEN ""
    ELSE LowerChar(SubSeq(s, 1, 1)) \o lower(SubSeq(s, 2, Len(s)))

Whitespace == {" ", "\t", "\n", "\r"}

\* s.strip()
RECURSIVE strip(_)
strip(s) ==
    IF s = "" THEN ""
    ELSE IF SubSeq(s, 1, 1) \in Whitespace THEN strip(SubSeq(s, 2, Len(s)))
    ELSE IF SubSeq(s, Len(s), Len(s)) \in Whitespace
         THEN strip(SubSeq(s, 1, Len(s) - 1))
    ELSE s

\* s.split(sep) for a one-character sep
RECURSIVE split(_, _)
split(s, sep) ==
    IF ~In(sep, s) THEN <<s>>
    ELSE LET p == index(s, sep)
         IN  <<SubSeq(s, 1, p)>> \o split(SubSeq(s, p + 2, Len(s)), sep)

\* sep.join(parts)
RECURSIVE join(_, _)
join(sep, parts) ==
    IF parts = <<>> THEN ""
    ELSE IF Len(parts) = 1 THEN parts[1]
    ELSE parts[1] \o sep \o join(sep, Tail(parts))

DIGITS == "0123456789"

IsDigit(c) == \E i \in 1..Len(DIGITS) : SubSeq(DIGITS, i, i) = c

DigitValue(c) == (CHOOSE i \in 1..Len(DIGITS) : SubSeq(DIGITS, i, i) = c) - 1

\* str(n) for n >= 0
RECURSIVE str(_)
str(n) ==
    IF n < 10 THEN SubSeq(DIGITS, n + 1, n + 1)
    ELSE str(n \div 10) \o SubSeq(DIGITS, (n % 10) + 1, (n % 10) + 1)

\* int(s) raises ValueError
IntRaises(s) == s = "" \/ \E i \in 1..Len(s) : ~IsDigit(SubSeq(s, i, i))

\* int(s) for a non-empty string of digits
RECURSIVE int(_)
int(s) ==
    IF Len(s) = 1 THEN DigitValue(s)
    ELSE 10 * int(SubSeq(s, 1, Len(s) - 1)) + DigitValue(SubSeq(s, Len(s), Len(s)))

\* A Python list given element by element: concatenation makes it a
\* sequence whose elements are computed once.
List(f) == f \o <<>>

\* seq[:n]
Prefix(seq, n) == SubSeq(seq, 1, IF Len(seq) < n THEN Len(seq) ELSE n)

min(a, b) == IF a < b THEN a ELSE b

\* sum(seq) over integers
RECURSIVE sum(_)
sum(seq) == IF seq = <<>> THEN 0 ELSE Head(seq) + sum(Tail(seq))

(***************************************************************************)
(* 5.3 PATTERN-SEED                                                        *)
(***************************************************************************)

\* matches: the keywords of one lexicon entry that occur in text_lower, in
\* the order of the entry's keyword list.
Matches(keywords, text_lower) ==
    SelectSeq(keywords, LAMBDA keyword : In(keyword, text_lower))

\* struct_score from first_match_pos and len(text): pos < len * 0.2 and
\* pos < len * 0.5 in exact arithmetic (the float products decide the same
\* way for every length below 5000).
StructScore(first_match_pos, text_len) ==
    IF 5 * first_match_pos < text_len THEN 3
    ELSE IF 2 * first_match_pos < text_len THEN 2
    ELSE 1

\* unique_score
UniqueScore(matches) == IF Len(matches) >= 3 THEN 1 ELSE 0

\* The candidate dict built for a lexicon entry that has matches.
Candidate(data, text, text_lower) ==
    LET matches == Matches(data.keywords, text_lower)
        freq_score == min(Len(matches), 3)
        struct_score == StructScore(index(text_lower, matches[1]), Len(text))
        theo_score == data.weight
        unique_score == UniqueScore(matches)
    IN  [symbol |-> data.symbol,
         score |-> freq_score + struct_score + theo_score + unique_score,
         frequency |-> freq_score,
         structural_position |-> struct_score,
         theological_weight |-> theo_score,
         matches |-> matches,
         meaning |-> data.meaning]

\* candidates: one dict per lexicon entry with at least one match, in
\* lexicon order.
Candidates(self, text) ==
    LET text_lower == lower(text)
        hit == SelectSeq(self.symbol_lexicon,
                         LAMBDA data : Matches(data.keywords, text_lower) # <<>>)
    IN  List([i \in DOMAIN hit |-> Candidate(hit[i], text, text_lower)])

\* candidates.sort(key=score, reverse=True): a stable sort, so candidates
\* of equal score keep their lexicon order.
RECURSIVE SortByScoreReverse(_)
SortByScoreReverse(candidates) ==
    IF candidates = <<>> THEN <<>>
    ELSE LET i == CHOOSE j \in DOMAIN candidates :
                    /\ \A k \in DOMAIN candidates :
                           candidates[k].score <= candidates[j].score
                    /\ \A k \in 1..(j - 1) :
                           candidates[k].score < candidates[j].score
         IN  <<candidates[i]>> \o
             SortByScoreReverse(SubSeq(candidates, 1, i - 1) \o
                                SubSeq(candidates, i + 1, Len(candidates)))

\* The minimum total score of a seed.
SeedThreshold == 4

\* The number of sorted candidates examined.
SeedLimit == 3

\* PatternSeed(...) built from a kept candidate c.
MakePatternSeed(c) ==
    [symbol |-> c.symbol,
     local_role |-> c.meaning \o " (appears as: " \o
                    join(", ", Prefix(c.matches, 2)) \o ")",
     support |-> <<"Mentioned " \o str(Len(c.matches)) \o " time(s)",
                   "Theological weight: " \o str(c.theological_weight) \o "/3">>,
     score |-> c.score,
     frequency |-> c.frequency,
     structural_position |-> c.structural_position,
     theological_weight |-> c.theological_weight]

\* SelectSeeds without the test of the score.
SelectSeeds_NoThreshold(sorted) ==
    LET kept == Prefix(sorted, SeedLimit)
    IN  List([i \in DOMAIN kept |-> MakePatternSeed(kept[i])])

\* The loop over candidates[:3] that keeps those of score >= 4.
SelectSeeds(sorted) ==
    LET kept == SelectSeq(Prefix(sorted, SeedLimit),
                          LAMBDA c : c.score >= SeedThreshold)
    IN  List([i \in DOMAIN kept |-> MakePatternSeed(kept[i])])

pattern_seed(self, text) ==
    SelectSeeds(SortByScoreReverse(Candidates(self, text)))

\* FirstMatchRaises for text.index(matches[0]), on the text as given.
FirstMatchRaises_InText(text, text_lower, matches) == IndexRaises(text, matches[1])

\* text_lower.index(matches[0]) raises for the matches of a lexicon entry.
FirstMatchRaises(text, text_lower, matches) == IndexRaises(text_lower, matches[1])

\* pattern_seed raises
PatternSeedRaises(self, text) ==
    LET text_lower == lower(text)
    IN  \E i \in DOMAIN self.symbol_lexicon :
            LET matches == Matches(self.symbol_lexicon[i].keywords, text_lower)
            IN  matches # <<>> /\ FirstMatchRaises(text, text_lower, matches)

(***************************************************************************)
(* 2.1 SPIRAL ASSIGNMENT                                                   *)
(***************************************************************************)

\* any(b in ref_lower for b in books)
AnyIn(books, ref_lower) == \E i \in DOMAIN books : In(books[i], ref_lower)

\* The last index of the run of digits of s that starts at index p.
DigitRunEnd(s, p) ==
    CHOOSE e \in p..Len(s) :
        /\ \A k \in p..e : IsDigit(SubSeq(s, k, k))
        /\ e = Len(s) \/ ~IsDigit(SubSeq(s, e + 1, e + 1))

\* The start indices at which the pattern (\d+): matches with its whole
\* run of digits: the first digit of a run that a colon follows.
ChapterMatchStarts(s) ==
    { p \in 1..Len(s) :
        /\ IsDigit(SubSeq(s, p, p))
        /\ p = 1 \/ ~IsDigit(SubSeq(s, p - 1, p - 1))
        /\ LET e == DigitRunEnd(s, p)
           IN  e < Len(s) /\ SubSeq(s, e + 1, e + 1) = ":" }

\* re.search(r'(\d+):', s) is not None
HasChapterMatch(s) == ChapterMatchStarts(s) # {}

\* re.search(r'(\d+):', s).group(1): the digits of the leftmost match
ChapterMatchGroup(s) ==
    LET p == CHOOSE q \in ChapterMatchStarts(s) :
                 \A r \in ChapterMatchStarts(s) : q <= r
    IN  SubSeq(s, p, DigitRunEnd(s, p))

\* The last chapter of spiral 1 (Genesis 1-11).
CreationLastChapter == 11

\* The branch taken once 'genesis' is in ref_lower.
GenesisSpiral(reference) ==
    IF HasChapterMatch(reference)
       /\ int(ChapterMatchGroup(reference)) <= CreationLastChapter
    THEN S1_CREATION
    ELSE S2_COVENANT

COVENANT_BOOKS == <<"exodus">>
LAW_BOOKS == <<"leviticus", "numbers", "deuteronomy">>
KINGSHIP_BOOKS == <<"joshua", "judges", "ruth", "samuel", "kings">>
WISDOM_BOOKS ==
    <<"job", "psalm", "proverb", "ecclesiastes", "song", "isaiah", "jeremiah",
      "lamentations", "ezekiel", "daniel", "hosea", "joel", "amos", "obadiah",
      "jonah", "micah", "nahum", "habakkuk", "zephaniah", "haggai", "zechariah",
      "malachi">>
GOSPEL_BOOKS == <<"matthew", "mark", "luke", "john">>
JOHN_EPISTLES == <<"1 john", "2 john", "3 john">>
NEW_CREATION_BOOKS ==
    <<"acts", "romans", "corinthians", "galatians", "ephesians", "philippians",
      "colossians", "thessalonians", "timothy", "titus", "philemon", "hebrews",
      "james", "peter", "john", "jude", "revelation">>

\* IsGospelOfJohn without the exclusion of the epistles.
IsGospelOfJohn_AnyJohn(ref_lower) ==
    /\ AnyIn(GOSPEL_BOOKS, ref_lower)
    /\ In("john", ref_lower)

\* The condition of the Gospel branch.
IsGospelOfJohn(ref_lower) ==
    /\ AnyIn(GOSPEL_BOOKS, ref_lower)
    /\ In("john", ref_lower)
    /\ ~AnyIn(JOHN_EPISTLES, ref_lower)

\* DefaultSpiral as the last spiral.
DefaultSpiral_Last == S7_NEW_CREATION

\* The spiral returned when no branch matches.
DefaultSpiral == S6_CHRIST

\* assign_spiral raises: int() of the chapter digits is its one partial step.
AssignSpiralRaises(self, reference) ==
    /\ In("genesis", lower(reference))
    /\ HasChapterMatch(reference)
    /\ IntRaises(ChapterMatchGroup(reference))

assign_spiral(self, reference) ==
    LET ref_lower == lower(reference)
    IN  IF In("genesis", ref_lower) THEN GenesisSpiral(reference)
        ELSE IF AnyIn(COVENANT_BOOKS, ref_lower) THEN S2_COVENANT
        ELSE IF AnyIn(LAW_BOOKS, ref_lower) THEN S3_LAW
        ELSE IF AnyIn(KINGSHIP_BOOKS, ref_lower) THEN S4_KINGSHIP
        ELSE IF AnyIn(WISDOM_BOOKS, ref_lower) THEN S5_WISDOM
        ELSE IF IsGospelOfJohn(ref_lower) THEN S6_CHRIST
        ELSE IF AnyIn(NEW_CREATION_BOOKS, ref_lower) THEN S7_NEW_CREATION
        ELSE DefaultSpiral

(***************************************************************************)
(* 5.2 QUAD-MAP                                                            *)
(***************************************************************************)

\* Segments without the fallback to the whole text.
Segments_NoFallback(text) ==
    LET parts == split(text, ".")
        stripped == List([i \in DOMAIN parts |-> strip(parts[i])])
    IN  SelectSeq(stripped, LAMBDA s : s # "")

\* segments: the stripped non-blank pieces of text between full stops, or
\* the whole text when there is none.
Segments(text) ==
    LET parts == split(text, ".")
        stripped == List([i \in DOMAIN parts |-> strip(parts[i])])
        kept == SelectSeq(stripped, LAMBDA s : s # "")
    IN  IF kept = <<>> THEN <<text>> ELSE kept

\* The cap of a quadrant score.
ScoreCap == 3

\* QuadScore without the cap.
QuadScore_NoCap(indicators, seg_lower) ==
    LET matched_keywords == Matches(indicators.keywords, seg_lower)
    IN  [score |-> Len(matched_keywords),
         keywords |-> matched_keywords]

\* scores[quad] for one segment: score counts the quadrant's keywords that
\* occur in seg_lower, capped; keywords lists them in list order.
QuadScore(indicators, seg_lower) ==
    LET matched_keywords == Matches(indicators.keywords, seg_lower)
    IN  [score |-> min(Len(matched_keywords), ScoreCap),
         keywords |-> matched_keywords]

\* scores: one entry per quadrant of self.quadrant_indicators, in its order.
SegmentQuadScores(self, segment) ==
    LET seg_lower == lower(segment)
        table == self.quadrant_indicators
    IN  List([i \in DOMAIN table |->
                [quad |-> table[i].quad,
                 score |-> QuadScore(table[i], seg_lower).score,
                 keywords |-> QuadScore(table[i], seg_lower).keywords]])

\* BestQuad that takes the last entry of maximal score.
BestQuad_LastOfTies(scores) ==
    LET i == CHOOSE j \in DOMAIN scores :
                 /\ \A k \in DOMAIN scores : scores[k].score <= scores[j].score
                 /\ \A k \in (j + 1)..Len(scores) : scores[k].score < scores[j].score
    IN  scores[i].quad

\* max(scores.items(), key=score)[0]: the first entry of maximal score.
BestQuad(scores) ==
    LET i == CHOOSE j \in DOMAIN scores :
                 /\ \A k \in DOMAIN scores : scores[k].score <= scores[j].score
                 /\ \A k \in 1..(j - 1) : scores[k].score < scores[j].score
    IN  scores[i].quad

\* The length from which a stored segment is cut and given an ellipsis.
ExcerptLen == 50

\* segment[:50] + '...' if len(segment) > 50 else segment
Excerpt(segment) ==
    IF Len(segment) > ExcerptLen
    THEN SubSeq(segment, 1, ExcerptLen) \o "..."
    ELSE segment

\* The dict appended to segment_scores for one segment.
SegmentScore(self, segment) ==
    LET scores == SegmentQuadScores(self, segment)
    IN  [segment |-> Excerpt(segment),
         quadrant |-> BestQuad(scores),
         scores |-> scores]

\* quad_counts: per member of Quadrant, in enum order, the number of
\* segments assigned to it.
QuadCounts(segment_scores) ==
    List([i \in DOMAIN Quadrant |->
            [quad |-> Quadrant[i],
             count |-> Cardinality({ k \in DOMAIN segment_scores :
                                       segment_scores[k].quadrant = Quadrant[i] })]])

\* sorted(quad_counts.items(), key=count, reverse=True): a stable sort.
RECURSIVE SortByCountReverse(_)
SortByCountReverse(counts) ==
    IF counts = <<>> THEN <<>>
    ELSE LET i == CHOOSE j \in DOMAIN counts :
                    /\ \A k \in DOMAIN counts : counts[k].count <= counts[j].count
                    /\ \A k \in 1..(j - 1) : counts[k].count < counts[j].count
         IN  <<counts[i]>> \o
             SortByCountReverse(SubSeq(counts, 1, i - 1) \o
                                SubSeq(counts, i + 1, Len(counts)))

\* The value of an absent optional field (Python's None).
None == "None"

\* Compress that removes every later duplicate, consecutive or not.
RECURSIVE Compress_AllDuplicates(_)
Compress_AllDuplicates(sequence) ==
    IF Len(sequence) <= 1 THEN sequence
    ELSE LET rest == Compress_AllDuplicates(SubSeq(sequence, 1, Len(sequence) - 1))
             q == sequence[Len(sequence)]
         IN  IF \A i \in DOMAIN rest : rest[i] # q THEN Append(rest, q) ELSE rest

\* Remove consecutive duplicates.
RECURSIVE Compress(_)
Compress(sequence) ==
    IF Len(sequence) <= 1 THEN sequence
    ELSE LET rest == Compress(SubSeq(sequence, 1, Len(sequence) - 1))
             q == sequence[Len(sequence)]
         IN  IF q # rest[Len(rest)] THEN Append(rest, q) ELSE rest

_compress_movement(sequence) ==
    IF sequence = <<>> THEN "Unknown"
    ELSE LET compressed == Compress(sequence)
         IN  IF Len(compressed) = 1 THEN "Static " \o compressed[1]
             ELSE join("→", compressed)

\* The evidence entry of one quadrant that has segments: the keywords of
\* the first segment assigned to it.
EvidenceEntry(quad, segment_scores) ==
    LET examples == SelectSeq(segment_scores, LAMBDA s : s.quadrant = quad)
        of_quad == SelectSeq(examples[1].scores, LAMBDA e : e.quad = quad)
        keywords == Prefix(of_quad[1].keywords, 3)
    IN  [quadrant |-> quad,
         reason |-> IF keywords # <<>>
                    THEN "Keywords: " \o join(", ", keywords)
                    ELSE "Tonal match"]

\* evidence: one entry per quadrant of sorted_quads with count > 0.
Evidence(sorted_quads, segment_scores) ==
    LET present == SelectSeq(sorted_quads, LAMBDA e : e.count > 0)
    IN  List([i \in DOMAIN present |->
                EvidenceEntry(present[i].quad, segment_scores)])

\* quad_map raises: max() of an empty scores dict, for any segment.
QuadMapRaises(self, text) == self.quadrant_indicators = <<>>

\* quad_map with the second of the ranking as secondary whatever its count.
quad_map_SecondaryAlways(self, text) ==
    LET segments == Segments(text)
        segment_scores ==
            List([i \in DOMAIN segments |-> SegmentScore(self, segments[i])])
        sorted_quads == SortByCountReverse(QuadCounts(segment_scores))
        quad_sequence ==
            List([i \in DOMAIN segment_scores |-> segment_scores[i].quadrant])
    IN  [primary_quadrant |-> sorted_quads[1].quad,
         secondary_quadrant |-> sorted_quads[2].quad,
         movement |-> _compress_movement(quad_sequence),
         evidence |-> Evidence(sorted_quads, segment_scores),
         segment_scores |-> segment_scores]

quad_map(self, text) ==
    LET segments == Segments(text)
        segment_scores ==
            List([i \in DOMAIN segments |-> SegmentScore(self, segments[i])])
        sorted_quads == SortByCountReverse(QuadCounts(segment_scores))
        quad_sequence ==
            List([i \in DOMAIN segment_scores |-> segment_scores[i].quadrant])
    IN  [primary_quadrant |-> sorted_quads[1].quad,
         secondary_quadrant |-> IF sorted_quads[2].count > 0
                                THEN sorted_quads[2].quad ELSE None,
         movement |-> _compress_movement(quad_sequence),
         evidence |-> Evidence(sorted_quads, segment_scores),
         segment_scores |-> segment_scores]

(***************************************************************************)
(* 5.4 ECHO-TRACE                                                          *)
(***************************************************************************)

\* roles_map: the curated arcs and the default arc, in dict order.
ROLES_MAP ==
    <<
      [symbol |-> "WATER",
       roles |-> <<
         [spiral |-> 1, role |-> "chaos waters separated, flood judgment",
          example |-> "Gen 1:2; Gen 6-9"],
         [spiral |-> 2, role |-> "Red Sea deliverance, testing waters",
          example |-> "Exod 14; Exod 17"],
         [spiral |-> 3, role |-> "ritual washings, purity",
          example |-> "Lev 11-15"],
         [spiral |-> 4, role |-> "drought/blessing cycles",
          example |-> "1 Kings 17-18"],
         [spiral |-> 5, role |-> "rivers of life promised",
          example |-> "Ezek 47; Ps 46"],
         [spiral |-> 6, role |-> "living water offered by Christ",
          example |-> "John 4; John 7"],
         [spiral |-> 7, role |-> "river of life from throne",
          example |-> "Rev 22"]
       >>],
      [symbol |-> "SPIRIT",
       roles |-> <<
         [spiral |-> 1, role |-> "hovering over chaos, creative breath",
          example |-> "Gen 1:2"],
         [spiral |-> 2, role |-> "selective empowerment",
          example |-> "Num 11"],
         [spiral |-> 3, role |-> "linked to prophecy",
          example |-> "Deut 34"],
         [spiral |-> 4, role |-> "empowering kings/prophets",
          example |-> "1 Sam 16"],
         [spiral |-> 5, role |-> "promised future outpouring",
          example |-> "Ezek 36-37; Joel 2"],
         [spiral |-> 6, role |-> "descends on Christ, promised to believers",
          example |-> "Matt 3; John 14-16"],
         [spiral |-> 7, role |-> "poured out on church",
          example |-> "Acts 2; Rom 8"]
       >>],
      [symbol |-> "LAMB",
       roles |-> <<
         [spiral |-> 1, role |-> "Abel's offering",
          example |-> "Gen 4"],
         [spiral |-> 2, role |-> "Passover lamb",
          example |-> "Exod 12"],
         [spiral |-> 3, role |-> "daily sacrifices",
          example |-> "Lev 1-7"],
         [spiral |-> 4, role |-> "temple system",
          example |-> "1 Kings 8"],
         [spiral |-> 5, role |-> "led to slaughter prophecy",
          example |-> "Isa 53"],
         [spiral |-> 6, role |-> "John's 'Lamb of God'",
          example |-> "John 1:29"],
         [spiral |-> 7, role |-> "Lamb on throne",
          example |-> "Rev 5"]
       >>],
      [symbol |-> "DEFAULT",
       roles |-> <<
         [spiral |-> 1, role |-> "prototype appearance",
          example |-> "Genesis"],
         [spiral |-> 2, role |-> "covenant context",
          example |-> "Exodus"],
         [spiral |-> 3, role |-> "law framework",
          example |-> "Leviticus"],
         [spiral |-> 4, role |-> "kingdom application",
          example |-> "Kings"],
         [spiral |-> 5, role |-> "wisdom/prophetic development",
          example |-> "Prophets"],
         [spiral |-> 6, role |-> "Christ fulfillment",
          example |-> "Gospels"],
         [spiral |-> 7, role |-> "church/new creation",
          example |-> "Revelation"]
       >>]
    >>

\* _get_symbol_spiral_roles without the default: no role for a symbol that
\* has no arc of its own.
_get_symbol_spiral_roles_CuratedOnly(symbol) ==
    LET found == SelectSeq(ROLES_MAP, LAMBDA e : e.symbol = symbol)
    IN  IF found # <<>> THEN found[1].roles ELSE <<>>

\* roles_map.get(symbol, roles_map["DEFAULT"])
_get_symbol_spiral_roles(symbol) ==
    LET found == SelectSeq(ROLES_MAP, LAMBDA e : e.symbol = symbol)
        default == SelectSeq(ROLES_MAP, LAMBDA e : e.symbol = "DEFAULT")
    IN  IF found # <<>> THEN found[1].roles ELSE default[1].roles

_derive_symbol_arc(symbol, roles) ==
    LET early == IF Len(roles) > 0 THEN roles[1].role ELSE "prototype"
        mid == IF Len(roles) > 3 THEN roles[4].role ELSE "development"
        late == IF Len(roles) > 6 THEN roles[7].role ELSE "fulfillment"
    IN  symbol \o " moves from " \o early \o " → " \o mid \o " → " \o late

\* position, by the band of the spiral's number
ArcPosition(spiral_num) ==
    IF spiral_num <= 2 THEN "Early-stage / Prototype"
    ELSE IF spiral_num <= 4 THEN "Mid-stage / Development"
    ELSE IF spiral_num = 5 THEN "Prophetic promise"
    ELSE IF spiral_num = 6 THEN "Christ fulfillment"
    ELSE "Church application / New Creation"

_place_on_arc(symbol, current_spiral, roles) ==
    LET spiral_num == current_spiral
        role_data == SelectSeq(roles, LAMBDA r : r.spiral = spiral_num)
    IN  [position |-> ArcPosition(spiral_num),
         reason |-> IF role_data # <<>> THEN role_data[1].role
                    ELSE "Standard progression"]

echo_trace(self, symbol, current_spiral) ==
    LET spiral_roles == _get_symbol_spiral_roles(symbol)
    IN  [symbol |-> symbol,
         spiral_roles |-> spiral_roles,
         overall_arc |-> _derive_symbol_arc(symbol, spiral_roles),
         current_passage_stage |-> _place_on_arc(symbol, current_spiral, spiral_roles)]

(***************************************************************************)
(* 5.5 GRAVITY-SYNC                                                        *)
(***************************************************************************)

\* direct_christ without the patterns of the cross.
direct_christ_NoCross == <<"finished", "resurrection", "risen">>

direct_christ == <<"crucif", "cross", "finished", "resurrection", "risen">>
strong_types == <<"lamb", "blood", "sacrifice", "altar", "priest", "atonement">>
light_hints == <<"seed", "crown", "king", "son", "shepherd">>

\* x in a list
Member(x, list) == \E i \in DOMAIN list : list[i] = x

\* The symbols of the seeds whose lowercased symbol is in the list, in
\* seed order.
SeedsOfType(seeds, types) ==
    LET hit == SelectSeq(seeds, LAMBDA seed : Member(lower(seed.symbol), types))
    IN  List([i \in DOMAIN hit |-> hit[i].symbol])

\* gravity_sync with the seed tiers tested before the text.
gravity_sync_SeedsFirst(self, text, seeds) ==
    LET direct == Matches(direct_christ, lower(text))
        strong == SeedsOfType(seeds, strong_types)
        light == SeedsOfType(seeds, light_hints)
    IN  IF strong # <<>> THEN
            [score |-> 2,
             explanation |-> "Strong sacrificial typology present",
             christ_patterns |-> strong]
        ELSE IF light # <<>> THEN
            [score |-> 1,
             explanation |-> "Light messianic hints present",
             christ_patterns |-> light]
        ELSE IF direct # <<>> THEN
            [score |-> 3,
             explanation |-> "Direct Christ event present",
             christ_patterns |-> direct]
        ELSE
            [score |-> 0,
             explanation |-> "No clear Christ-pattern detected",
             christ_patterns |-> <<>>]

gravity_sync(self, text, seeds) ==
    LET text_lower == lower(text)
        direct == Matches(direct_christ, text_lower)
        strong == SeedsOfType(seeds, strong_types)
        light == SeedsOfType(seeds, light_hints)
    IN  IF direct # <<>> THEN
            [score |-> 3,
             explanation |-> "Direct Christ event present",
             christ_patterns |-> direct]
        ELSE IF strong # <<>> THEN
            [score |-> 2,
             explanation |-> "Strong sacrificial typology present",
             christ_patterns |-> strong]
        ELSE IF light # <<>> THEN
            [score |-> 1,
             explanation |-> "Light messianic hints present",
             christ_patterns |-> light]
        ELSE
            [score |-> 0,
             explanation |-> "No clear Christ-pattern detected",
             christ_patterns |-> <<>>]

(***************************************************************************)
(* 5.6 COMP-435                                                            *)
(***************************************************************************)

stage_4_words ==
    <<"without", "empty", "nothing", "darkness", "void", "lack", "toil", "night",
      "labor">>
stage_3_words ==
    <<"god said", "lord said", "commanded", "spoke", "word", "thus saith", "behold">>
stage_5_words ==
    <<"filled", "overflow", "abundance", "multiply", "blessed", "feast", "rest",
      "rejoice", "new">>

\* stages = None: the field holds no dictionary, written as the function
\* with no key, which is comparable with the dictionary of the other branch.
NoStages == <<>>

\* comp_435 with has_pattern true when any stage is present.
comp_435_AnyStage(self, text) ==
    LET text_lower == lower(text)
        has_stage_4 == AnyIn(stage_4_words, text_lower)
        has_stage_3 == AnyIn(stage_3_words, text_lower)
        has_stage_5 == AnyIn(stage_5_words, text_lower)
        has_pattern == has_stage_4 \/ has_stage_3 \/ has_stage_5
    IN  IF has_pattern THEN
            [has_pattern |-> has_pattern,
             mapping |-> "4: chaos/lack → 3: divine word/act → 5: grace/overflow",
             confidence |-> "Medium",
             stages |-> [stage_4 |-> has_stage_4,
                         stage_3 |-> has_stage_3,
                         stage_5 |-> has_stage_5]]
        ELSE
            [has_pattern |-> has_pattern,
             mapping |-> None,
             confidence |-> "Low",
             stages |-> NoStages]

comp_435(self, text) ==
    LET text_lower == lower(text)
        has_stage_4 == AnyIn(stage_4_words, text_lower)
        has_stage_3 == AnyIn(stage_3_words, text_lower)
        has_stage_5 == AnyIn(stage_5_words, text_lower)
        has_pattern == has_stage_4 /\ has_stage_3 /\ has_stage_5
    IN  IF has_pattern THEN
            [has_pattern |-> has_pattern,
             mapping |-> "4: chaos/lack → 3: divine word/act → 5: grace/overflow",
             confidence |-> "Medium",
             stages |-> [stage_4 |-> has_stage_4,
                         stage_3 |-> has_stage_3,
                         stage_5 |-> has_stage_5]]
        ELSE
            [has_pattern |-> has_pattern,
             mapping |-> None,
             confidence |-> "Low",
             stages |-> NoStages]

(***************************************************************************)
(* 5.7 URIM & THUMMIM                                                      *)
(***************************************************************************)

\* [len(t.spiral_roles) for t in traces]
RoleCounts(traces) == List([i \in DOMAIN traces |-> Len(traces[i].spiral_roles)])

\* The average number of roles per trace that makes urim true.
UrimAverage == 5

\* Urim with the comparison avg_appearances > 5.
Urim_AboveAverage(traces) ==
    /\ Len(traces) > 0
    /\ sum(RoleCounts(traces)) > UrimAverage * Len(traces)

\* urim: avg_appearances >= 5 over a non-empty list of traces, the average
\* compared without division.
Urim(traces) ==
    /\ Len(traces) > 0
    /\ sum(RoleCounts(traces)) >= UrimAverage * Len(traces)

\* The gravity score from which thummim is true.
ThummimScore == 2

Interpretation(urim, thummim) ==
    IF urim /\ thummim THEN "Fully alive, coherent, and completed spiral"
    ELSE IF urim /\ ~thummim THEN "Real pattern but still open / unresolved"
    ELSE IF ~urim /\ thummim THEN "Sealed mystery; not fully revealed"
    ELSE "Likely false spiral or over-interpretation"

\* urim_thummim with thummim true for a direct Christ event only.
urim_thummim_DirectOnly(self, seeds, traces, gravity) ==
    LET urim == Urim(traces)
        thummim == gravity.score > ThummimScore
    IN  [urim |-> urim,
         thummim |-> thummim,
         interpretation |-> Interpretation(urim, thummim)]

urim_thummim(self, seeds, traces, gravity) ==
    LET urim == Urim(traces)
        thummim == gravity.score >= ThummimScore
    IN  [urim |-> urim,
         thummim |-> thummim,
         interpretation |-> Interpretation(urim, thummim)]

(***************************************************************************)
(* 5.8 FRACTAL-FILTER                                                      *)
(***************************************************************************)

\* Checklist with echo_density true of an empty list of traces.
Checklist_DensityOfNoTrace(seeds, traces) ==
    [echo_density |->
         \A i \in DOMAIN traces : Len(traces[i].spiral_roles) >= 3,
     cross_spiral_reach |->
         Len(traces) > 0 /\ \E i \in DOMAIN traces : Len(traces[i].spiral_roles) >= 5,
     theological_load |->
         \E i \in DOMAIN seeds : seeds[i].theological_weight >= 2,
     controls |-> Len(seeds) >= 2,
     bidirectional |-> Len(seeds) > 0]

\* checklist: the five criteria, keyed as the dict is.
Checklist(seeds, traces) ==
    [echo_density |->
         Len(traces) > 0 /\ \A i \in DOMAIN traces : Len(traces[i].spiral_roles) >= 3,
     cross_spiral_reach |->
         Len(traces) > 0 /\ \E i \in DOMAIN traces : Len(traces[i].spiral_roles) >= 5,
     theological_load |->
         \E i \in DOMAIN seeds : seeds[i].theological_weight >= 2,
     controls |-> Len(seeds) >= 2,
     bidirectional |-> Len(seeds) > 0]

\* satisfied: the number of true values of the checklist
Satisfied(checklist) == Cardinality({ k \in DOMAIN checklist : checklist[k] })

\* The number of satisfied criteria from which a pattern is a fractal.
FractalThreshold == 3

\* Classify with the comparison satisfied > 3.
Classify_Strict(satisfied) ==
    IF satisfied > FractalThreshold
    THEN [classification |-> "Fractal",
          reasoning |-> "Pattern satisfies " \o str(satisfied) \o
                        "/5 fractal criteria"]
    ELSE [classification |-> "Likely Feedback",
          reasoning |-> "Only " \o str(satisfied) \o
                        "/5 criteria satisfied; likely over-interpretation"]

\* classification and reasoning from the number of satisfied criteria
Classify(satisfied) ==
    IF satisfied >= FractalThreshold
    THEN [classification |-> "Fractal",
          reasoning |-> "Pattern satisfies " \o str(satisfied) \o
                        "/5 fractal criteria"]
    ELSE [classification |-> "Likely Feedback",
          reasoning |-> "Only " \o str(satisfied) \o
                        "/5 criteria satisfied; likely over-interpretation"]

fractal_filter(self, seeds, traces) ==
    LET checklist == Checklist(seeds, traces)
        verdict == Classify(Satisfied(checklist))
    IN  [classification |-> verdict.classification,
         reasoning |-> verdict.reasoning,
         checklist_results |-> checklist]

(***************************************************************************)
(* SUMMARY GENERATION and the master pipeline TELOS-RUN                    *)
(***************************************************************************)

\* The closing sentence, by gravity score.
SummaryClosing(score) ==
    IF score = 3 THEN "This directly reveals Christ's redemptive work."
    ELSE IF score = 2 THEN
        "This strongly foreshadows the Cross pattern through sacrificial typology."
    ELSE IF score = 1 THEN
        "This hints at the larger narrative arc pointing toward Christ."
    ELSE "This passage contributes to the broader biblical narrative."

generate_summary(self, spiral, quadrants, seeds, gravity) ==
    LET first == Prefix(seeds, 3)
        seed_names == List([i \in DOMAIN first |-> first[i].symbol])
    IN  "This passage sits in " \o Spiral[spiral] \o ", " \o
        "moving through " \o quadrants.movement \o ". " \o
        (IF seed_names # <<>>
         THEN "The dominant symbols are " \o join(", ", seed_names) \o ". "
         ELSE "") \o
        SummaryClosing(gravity.score)

\* telos_run raises when one of its stages does.
TelosRunRaises(self, reference, text) ==
    \/ AssignSpiralRaises(self, reference)
    \/ QuadMapRaises(self, text)
    \/ PatternSeedRaises(self, text)

\* telos_run that traces the seeds from the last to the first and syncs
\* gravity before any seed is known.
telos_run_OutOfOrder(self, reference, text) ==
    LET spiral == assign_spiral(self, reference)
        quadrants == quad_map(self, text)
        seeds == pattern_seed(self, text)
        first == Prefix(seeds, 3)
        traces ==
            List([i \in DOMAIN first |->
                    echo_trace(self, first[Len(first) + 1 - i].symbol, spiral)])
        gravity == gravity_sync(self, text, <<>>)
        comp435 == comp_435(self, text)
    IN  [reference |-> reference,
         spiral |-> spiral,
         quadrants |-> quadrants,
         pattern_seeds |-> seeds,
         echo_traces |-> traces,
         gravity_sync |-> gravity,
         comp_435 |-> comp435,
         urim_thummim |-> urim_thummim(self, seeds, traces, gravity),
         fractal_filter |-> fractal_filter(self, seeds, traces),
         theological_summary |-> generate_summary(self, spiral, quadrants, seeds, gravity)]

telos_run(self, reference, text) ==
    LET spiral == assign_spiral(self, reference)
        quadrants == quad_map(self, text)
        seeds == pattern_seed(self, text)
        first == Prefix(seeds, 3)
        traces ==
            List([i \in DOMAIN first |-> echo_trace(self, first[i].symbol, spiral)])
        gravity == gravity_sync(self, text, seeds)
        comp435 == comp_435(self, text)
    IN  [reference |-> reference,
         spiral |-> spiral,
         quadrants |-> quadrants,
         pattern_seeds |-> seeds,
         echo_traces |-> traces,
         gravity_sync |-> gravity,
         comp_435 |-> comp435,
         urim_thummim |-> urim_thummim(self, seeds, traces, gravity),
         fractal_filter |-> fractal_filter(self, seeds, traces),
         theological_summary |-> generate_summary(self, spiral, quadrants, seeds, gravity)]

\* SelfAfterCall for a method that pops the first entry of the lexicon.
SelfAfterCall_PopsLexicon(self) ==
    [self EXCEPT !.symbol_lexicon = IF @ = <<>> THEN @ ELSE Tail(@)]

\* The fields of self after a call of any method: no method assigns one,
\* or changes a table in place.
SelfAfterCall(self) == self

(***************************************************************************)
(* The engine object, the inputs of a call and the calls themselves.  A    *)
(* behaviour starts with a caller holding an engine and the arguments of   *)
(* one call (pc = "call"); the called method runs to its return            *)
(* (pc = "done").  history observes the telos_run calls made so far, each  *)
(* with its arguments and its report.                                      *)
(***************************************************************************)

\* LHTDiagnosticEngine.__init__
LHTDiagnosticEngine ==
    [symbol_lexicon |-> SYMBOL_LEXICON,
     quadrant_indicators |-> QUADRANT_INDICATORS]

\* The value of result while the call has not returned.
NotReturned == <<"not returned">>

\* Passage texts: up to MaxPieces phrases in a row.
MaxPieces == 3

Pieces ==
    { "the hand ", "Light ", "darkness. ", "blood of a lamb ",
      "the sea and the waters ", "crucified ", "the king's son ", "Behold. ",
      "rejoice in renewed life " }

TextsOf(n) == { join("", ps) : ps \in UNION { [1..k -> Pieces] : k \in 0..n } }

Texts == TextsOf(MaxPieces)

\* Texts with no non-blank segment.
BlankTexts == { "", " ", ". .", "..." }

\* Whole passages.
Passages == { "It is finished.", "Jesus was crucified and rose from the dead." }

\* References: a book name, as written, and a locator.
Books ==
    { "Genesis", "GENESIS", "Exodus", "Leviticus", "1 Samuel", "Ruth", "Psalm",
      "Isaiah", "Matthew", "Mark", "Luke", "John", "1 John", "2 John", "3 John",
      "Acts", "Romans", "Revelation", "Esther", "Tobit", "", "?" }

Locators == { "", " 1:1", " 11:32", " 12:1-3", " 5", " 50:26", ":", " 3:" }

References == { b \o l : b \in Books, l \in Locators }

\* A PatternSeed handed to a method by a caller of that method alone.
SeedOf(symbol, weight) ==
    [symbol |-> symbol,
     local_role |-> "",
     support |-> <<>>,
     score |-> SeedThreshold,
     frequency |-> 1,
     structural_position |-> 1,
     theological_weight |-> weight]

\* An EchoTrace with the first n roles of the symbol's arc.
TraceOf(symbol, n) ==
    [symbol |-> symbol,
     spiral_roles |-> Prefix(_get_symbol_spiral_roles(symbol), n),
     overall_arc |-> "",
     current_passage_stage |-> [position |-> "", reason |-> ""]]

\* Sequences over S of length at most n.
SeqsUpTo(S, n) == UNION { [1..k -> S] : k \in 0..n }

MaxSeedsIn == 2
MaxTracesIn == 2
MaxGravityPieces == 1
MaxRunPieces == 2
MaxCalls == 3

SeedSymbols == { "LAMB", "KING", "WATER", "CROSS" }
SeedWeights == { 1, 2, 3 }
RoleCountsIn == { 0, 2, 3, 5, 7 }

\* No request made yet.
NoRequest == <<>>

\* self.lht_cache = {}
NoCache == <<>>

\* The REST API module as imported: users_db = {} and nothing answered.
RestStart ==
    /\ users_db = <<>>
    /\ uuid_count = 0
    /\ now = 0
    /\ request = NoRequest
    /\ response = NoRequest

InitCall(method, inputs) ==
    /\ engine = LHTDiagnosticEngine
    /\ pc = "call"
    /\ op = method
    /\ args \in inputs
    /\ result = NotReturned
    /\ history = <<>>
    /\ layer0 = <<>>
    /\ lht_cache = NoCache
    /\ RestStart

\* The end of a call of a method other than telos_run: an exception leaves
\* the method (pc = "raised") or it returns value.
Return(method, raises, value) ==
    /\ pc = "call"
    /\ op = method
    /\ IF raises
       THEN pc' = "raised" /\ result' = NotReturned
       ELSE pc' = "done" /\ result' = value
    /\ engine' = SelfAfterCall(engine)
    /\ UNCHANGED <<op, args, history, ramah_vars, rest_vars>>

AssignSpiralInputs == { [reference |-> r] : r \in References }

AssignSpiral ==
    Return("assign_spiral", AssignSpiralRaises(engine, args.reference),
           assign_spiral(engine, args.reference))

\* Texts with a segment in which several quadrants have the same score.
TieTexts ==
    { "Behold the darkness.", "The law of sin and life. Light",
      "Light. The darkness of death" }

QuadMapInputs == { [text |-> text] : text \in Texts \cup BlankTexts \cup TieTexts }

QuadMap ==
    Return("quad_map", QuadMapRaises(engine, args.text), quad_map(engine, args.text))

PatternSeedInputs == { [text |-> text] : text \in Texts \cup BlankTexts }

PatternSeed ==
    Return("pattern_seed", PatternSeedRaises(engine, args.text),
           pattern_seed(engine, args.text))

GravitySyncInputs ==
    { [text |-> text, seeds |-> seeds] :
        text \in TextsOf(MaxGravityPieces) \cup Passages,
        seeds \in SeqsUpTo({ SeedOf(s, 3) : s \in SeedSymbols }, MaxSeedsIn) }

GravitySync ==
    Return("gravity_sync", FALSE, gravity_sync(engine, args.text, args.seeds))

Comp435Inputs == { [text |-> text] : text \in Texts \cup BlankTexts }

Comp435 == Return("comp_435", FALSE, comp_435(engine, args.text))

TraceLists == SeqsUpTo({ TraceOf("WATER", n) : n \in RoleCountsIn }, MaxTracesIn)

SeedLists == SeqsUpTo({ SeedOf("WATER", w) : w \in SeedWeights }, MaxSeedsIn)

FractalFilterInputs ==
    { [seeds |-> seeds, traces |-> traces] :
        seeds \in SeedLists, traces \in TraceLists }

\* A GravitySync of a caller of urim_thummim alone: only its score is read.
GravityOf(score) ==
    [score |-> score, christ_patterns |-> <<>>, explanation |-> ""]

GravityScores == 0..3

UrimThummimInputs ==
    { [seeds |-> seeds, traces |-> traces, gravity |-> GravityOf(score)] :
        seeds \in { <<>>, <<SeedOf("WATER", 3)>> },
        traces \in TraceLists,
        score \in GravityScores }

UrimThummim ==
    Return("urim_thummim", FALSE,
           urim_thummim(engine, args.seeds, args.traces, args.gravity))

FractalFilter ==
    Return("fractal_filter", FALSE, fractal_filter(engine, args.seeds, args.traces))

TelosRunInputs ==
    { [reference |-> r, text |-> text] :
        r \in { "Genesis 1:1", "John 3:16", "1 John 1:1", "" },
        text \in TextsOf(MaxRunPieces) \cup BlankTexts \cup Passages }

\* The reports of repeated calls are compared over these inputs.
RepeatInputs ==
    { [reference |-> r, text |-> text] :
        r \in { "Genesis 1:1", "John 3:16" },
        text \in { "", "Light ", "blood of a lamb ", "crucified " } }

TelosRun ==
    /\ pc = "call"
    /\ op = "telos_run"
    /\ IF TelosRunRaises(engine, args.reference, args.text)
       THEN /\ pc' = "raised"
            /\ result' = NotReturned
            /\ history' = history
       ELSE /\ pc' = "done"
            /\ result' = telos_run(engine, args.reference, args.text)
            /\ history' = Append(history, [reference |-> args.reference,
                                           text |-> args.text,
                                           report |-> result'])
    /\ engine' = SelfAfterCall(engine)
    /\ UNCHANGED <<op, args, ramah_vars, rest_vars>>

\* The caller calls telos_run again, on the same engine.
CallAgain ==
    /\ pc = "done"
    /\ op = "telos_run"
    /\ Len(history) < MaxCalls
    /\ \E input \in RepeatInputs : args' = input
    /\ pc' = "call"
    /\ result' = NotReturned
    /\ UNCHANGED <<engine, op, history, ramah_vars, rest_vars>>

\* One call of telos_run.
Spec == InitCall("telos_run", TelosRunInputs) /\ [][TelosRun]_vars

\* Calls of telos_run one after another on one engine.
NextRepeat == TelosRun \/ CallAgain

SpecRepeat == InitCall("telos_run", RepeatInputs) /\ [][NextRepeat]_vars

SpecSpiral == InitCall("assign_spiral", AssignSpiralInputs) /\ [][AssignSpiral]_vars

SpecQuad == InitCall("quad_map", QuadMapInputs) /\ [][QuadMap]_vars

SpecSeed == InitCall("pattern_seed", PatternSeedInputs) /\ [][PatternSeed]_vars

SpecGravity == InitCall("gravity_sync", GravitySyncInputs) /\ [][GravitySync]_vars

SpecComp == InitCall("comp_435", Comp435Inputs) /\ [][Comp435]_vars

SpecUrim == InitCall("urim_thummim", UrimThummimInputs) /\ [][UrimThummim]_vars

SpecFractal == InitCall("fractal_filter", FractalFilterInputs) /\ [][FractalFilter]_vars

(***************************************************************************)
(* RAMAH ANALYZE (src/ezekiel_memory_engine_lht.py)                        *)
(***************************************************************************)

UpperChar(c) ==
    IF \E i \in 1..Len(ASCII_LOWER) : SubSeq(ASCII_LOWER, i, i) = c
    THEN LET i == CHOOSE j \in 1..Len(ASCII_LOWER) : SubSeq(ASCII_LOWER, j, j) = c
         IN  SubSeq(ASCII_UPPER, i, i)
    ELSE c

\* s.upper()
RECURSIVE upper(_)
upper(s) ==
    IF s = "" THEN ""
    ELSE UpperChar(SubSeq(s, 1, 1)) \o upper(SubSeq(s, 2, Len(s)))

\* s.split(): the maximal runs of characters that are not whitespace.
RECURSIVE SplitWhitespace(_)
SplitWhitespace(s) ==
    LET body == strip(s)
        blanks == { i \in 1..Len(body) : SubSeq(body, i, i) \in Whitespace }
    IN  IF body = "" THEN <<>>
        ELSE IF blanks = {} THEN <<body>>
        ELSE LET p == CHOOSE i \in blanks : \A j \in blanks : i <= j
             IN  <<SubSeq(body, 1, p - 1)>> \o
                 SplitWhitespace(SubSeq(body, p + 1, Len(body)))

\* The verse record load_kjv stores for a verse.
VerseData(book, chapter, verse, text) ==
    LET coord_str == "L0.Q" \o str((verse % 4) + 1) \o ".KJV." \o book \o "." \o
                     str(chapter) \o "_" \o str(verse) \o "[C3]"
    IN  [book |-> book,
         chapter |-> chapter,
         verse |-> verse,
         text |-> text,
         coordinate |-> coord_str,
         reference |-> book \o " " \o str(chapter) \o ":" \o str(verse)]

\* get_verse returning None: no verse record, written as the function with
\* no key, which is comparable with a verse record.
NoVerse == <<>>

\* Layer0Scripture.get_verse: the first verse of the store with the book
\* (compared in upper case), chapter and verse, or None.
get_verse(self, book, chapter, verse) ==
    LET found == SelectSeq(self, LAMBDA verse_data :
                     /\ upper(verse_data.book) = upper(book)
                     /\ verse_data.chapter = chapter
                     /\ verse_data.verse = verse)
    IN  IF found = <<>> THEN NoVerse ELSE found[1]

\* verses.sort(key=lambda x: (x['chapter'], x['verse'])): a stable sort.
RECURSIVE SortByChapterVerse(_)
SortByChapterVerse(verses) ==
    IF verses = <<>> THEN <<>>
    ELSE LET Before(a, b) == \/ a.chapter < b.chapter
                             \/ a.chapter = b.chapter /\ a.verse < b.verse
             i == CHOOSE j \in DOMAIN verses :
                      /\ \A k \in DOMAIN verses : ~Before(verses[k], verses[j])
                      /\ \A k \in 1..(j - 1) : Before(verses[j], verses[k])
         IN  <<verses[i]>> \o
             SortByChapterVerse(SubSeq(verses, 1, i - 1) \o
                                SubSeq(verses, i + 1, Len(verses)))

\* Layer0Scripture.get_passage called with an end chapter and verse: the
\* verses of the book from the start to the end, sorted.
get_passage(self, book, start_chapter, start_verse, end_chapter, end_verse) ==
    SortByChapterVerse(SelectSeq(self, LAMBDA verse_data :
        LET ch == verse_data.chapter
            v == verse_data.verse
        IN  /\ upper(verse_data.book) = upper(book)
            /\ ch > start_chapter \/ (ch = start_chapter /\ v >= start_verse)
            /\ ch < end_chapter \/ (ch = end_chapter /\ v <= end_verse)))

\* a, b = map(int, s.split(':')) raises ValueError: s has not exactly two
\* parts, or a part is not a number.
UnpackIntsRaises(s) ==
    LET parts == split(s, ":")
    IN  \/ Len(parts) # 2
        \/ \E i \in DOMAIN parts : IntRaises(parts[i])

\* Parsing the verse reference raises ValueError.
VerseRefRaises(verse_ref) ==
    IF In("-", verse_ref)
    THEN LET ends == split(verse_ref, "-")
         IN  \/ Len(ends) # 2
             \/ UnpackIntsRaises(ends[1])
             \/ IF In(":", ends[2]) THEN UnpackIntsRaises(ends[2])
                ELSE IntRaises(ends[2])
    ELSE UnpackIntsRaises(verse_ref)

\* The verses _analyze resolves for a book and a verse reference that parses.
ResolvedVerses(self, book, verse_ref) ==
    IF In("-", verse_ref)
    THEN LET ends == split(verse_ref, "-")
             start == split(ends[1], ":")
             start_ch == int(start[1])
             start_v == int(start[2])
             end_ch == IF In(":", ends[2]) THEN int(split(ends[2], ":")[1])
                       ELSE start_ch
             end_v == IF In(":", ends[2]) THEN int(split(ends[2], ":")[2])
                      ELSE int(ends[2])
         IN  get_passage(self, book, start_ch, start_v, end_ch, end_v)
    ELSE LET chv == split(verse_ref, ":")
             verse_data == get_verse(self, book, int(chv[1]), int(chv[2]))
         IN  IF verse_data # NoVerse THEN <<verse_data>> ELSE <<>>

\* ' '.join(v['text'] for v in verses)
PassageText(verses) == join(" ", List([i \in DOMAIN verses |-> verses[i].text]))

\* _analyze gets as far as calling telos_run.
InvokesTelosRun(self, reference) ==
    LET parts == SplitWhitespace(reference)
    IN  /\ Len(parts) >= 2
        /\ ~VerseRefRaises(parts[2])
        /\ ResolvedVerses(self, parts[1], parts[2]) # <<>>

\* RamahInterface._analyze raises to its caller.
AnalyzeRaises(self, lht_engine, reference) ==
    LET parts == SplitWhitespace(reference)
    IN  /\ Len(parts) >= 2
        /\ \/ VerseRefRaises(parts[2])
           \/ /\ ResolvedVerses(self, parts[1], parts[2]) # <<>>
              /\ TelosRunRaises(lht_engine, reference,
                     PassageText(ResolvedVerses(self, parts[1], parts[2])))

\* The dictionary _analyze makes of a report.
FormatAnalysis(reference, analysis) ==
    [status |-> "success",
     type |-> "lht_analysis",
     reference |-> reference,
     analysis |->
        [spiral |-> Spiral[analysis.spiral],
         quadrant_movement |-> analysis.quadrants.movement,
         primary_quadrant |-> analysis.quadrants.primary_quadrant,
         pattern_seeds |->
            List([i \in DOMAIN analysis.pattern_seeds |->
                    [symbol |-> analysis.pattern_seeds[i].symbol,
                     role |-> analysis.pattern_seeds[i].local_role,
                     score |-> analysis.pattern_seeds[i].score]]),
         gravity_sync |-> [score |-> analysis.gravity_sync.score,
                           explanation |-> analysis.gravity_sync.explanation],
         comp_435 |-> [has_pattern |-> analysis.comp_435.has_pattern,
                       mapping |-> analysis.comp_435.mapping],
         urim_thummim |-> analysis.urim_thummim,
         fractal_status |-> analysis.fractal_filter.classification,
         summary |-> analysis.theological_summary]]

\* RamahInterface._analyze, for a reference on which it does not raise.
_analyze(self, lht_engine, reference) ==
    LET parts == SplitWhitespace(reference)
    IN  IF Len(parts) < 2
        THEN [status |-> "error", error |-> "Invalid reference format"]
        ELSE LET verses == ResolvedVerses(self, parts[1], parts[2])
             IN  IF verses = <<>>
                 THEN [status |-> "error",
                       error |-> "Passage not found: " \o reference]
                 ELSE FormatAnalysis(reference,
                          telos_run(lht_engine, reference, PassageText(verses)))

\* Verse stores: the store before load_kjv, and stores it has filled.
GospelVerses ==
    <<VerseData("JOHN", 19, 30, "It is finished"),
      VerseData("JOHN", 19, 31, "the bodies should not remain upon the cross"),
      VerseData("JOHN", 20, 1, "when it was yet dark")>>

GenesisVerses ==
    <<VerseData("GENESIS", 1, 1, "In the beginning"),
      VerseData("GENESIS", 1, 2, "darkness was upon the face of the deep")>>

VerseStores == { <<>>, GospelVerses, GenesisVerses \o GospelVerses }

AnalyzeReferences ==
    { "", "John", " John ", "John 19:30", "john 19:30", "John  19:30",
      "John 19:30 KJV", "John 19:30-31", "John 19:30-19:31", "John 19:29-20:1",
      "John 19:31-30", "John 3:16", "John 3:16-17", "Mark 1:1", "Genesis 1:1",
      "Genesis 1:1-2", "Genesis 2:1-3",
      "John 19", "John 19-20", "John 19:x", "John abc", "John 19:30-",
      "John 19:30-31-32", "John 1:2:3", "John :", "John 19:", "1 John 1:1" }

AnalyzeInputs == { [reference |-> r] : r \in AnalyzeReferences }

\* A call of _analyze on a Ramah interface over some verse store.
InitAnalyze ==
    /\ engine = LHTDiagnosticEngine
    /\ pc = "call"
    /\ op = "_analyze"
    /\ args \in AnalyzeInputs
    /\ result = NotReturned
    /\ history = <<>>
    /\ layer0 \in VerseStores
    /\ lht_cache = NoCache
    /\ RestStart

\* _analyze: history records the call of telos_run it makes.
Analyze ==
    /\ pc = "call"
    /\ op = "_analyze"
    /\ IF AnalyzeRaises(layer0, engine, args.reference)
       THEN /\ pc' = "raised"
            /\ result' = NotReturned
            /\ history' = history
       ELSE /\ pc' = "done"
            /\ result' = _analyze(layer0, engine, args.reference)
            /\ history' =
                  IF InvokesTelosRun(layer0, args.reference)
                  THEN LET parts == SplitWhitespace(args.reference)
                           text == PassageText(
                                       ResolvedVerses(layer0, parts[1], parts[2]))
                       IN  Append(history,
                                  [reference |-> args.reference,
                                   text |-> text,
                                   report |-> telos_run(engine, args.reference, text)])
                  ELSE history
    /\ engine' = SelfAfterCall(engine)
    /\ UNCHANGED <<op, args, ramah_vars, rest_vars>>

SpecAnalyze == InitAnalyze /\ [][Analyze]_vars

(***************************************************************************)
(* EZEKIEL MEMORY ENGINE: analyze_passage and its cache                    *)
(* (src/ezekiel_memory_engine_lht.py).  lht_cache is the function from the *)
(* cached references to their analyses.                                    *)
(***************************************************************************)

\* s.strip('"')
RECURSIVE StripQuotes(_)
StripQuotes(s) ==
    IF s # "" /\ SubSeq(s, 1, 1) = "\""
    THEN StripQuotes(SubSeq(s, 2, Len(s)))
    ELSE IF s # "" /\ SubSeq(s, Len(s), Len(s)) = "\""
    THEN StripQuotes(SubSeq(s, 1, Len(s) - 1))
    ELSE s

\* The target RamahInterface.query reads from the prompt analyze_passage
\* writes for a reference of one line: what follows ANALYZE, stripped of
\* white space on the left and of quotes at both ends.
QueryTarget(reference) ==
    LET line == "RAMAH: ANALYZE \"" \o reference \o "\""
        rest == strip(SubSeq(line, Len("RAMAH:") + 1, Len(line)))
        parts_1 == SubSeq(rest, Len("ANALYZE") + 1, Len(rest))
    IN  StripQuotes(strip(parts_1))

\* The exception that leaves analyze_passage.
ValueError == [raised |-> "ValueError"]

\* analyze_passage that runs and stores the analysis whatever the cache
\* holds.
analyze_passage_RunsAgain(self, lht_engine, cached, reference, cache) ==
    LET target == QueryTarget(reference)
    IN  IF AnalyzeRaises(self, lht_engine, target)
        THEN [raises |-> TRUE, value |-> ValueError, lht_cache |-> cached,
              ran |-> InvokesTelosRun(self, target)]
        ELSE LET analyzed == _analyze(self, lht_engine, target)
             IN  IF analyzed.status = "success"
                 THEN [raises |-> FALSE, value |-> analyzed.analysis,
                       lht_cache |-> IF cache
                                     THEN (reference :> analyzed.analysis) @@ cached
                                     ELSE cached,
                       ran |-> TRUE]
                 ELSE [raises |-> TRUE, value |-> ValueError,
                       lht_cache |-> cached, ran |-> FALSE]

\* analyze_passage on the verse store self with the cache cached: whether
\* it raises, the value it returns, the cache after it, and whether
\* telos_run ran.
analyze_passage(self, lht_engine, cached, reference, cache) ==
    LET target == QueryTarget(reference)
    IN  IF cache /\ reference \in DOMAIN cached
        THEN [raises |-> FALSE, value |-> cached[reference],
              lht_cache |-> cached, ran |-> FALSE]
        ELSE IF AnalyzeRaises(self, lht_engine, target)
        THEN [raises |-> TRUE, value |-> ValueError, lht_cache |-> cached,
              ran |-> InvokesTelosRun(self, target)]
        ELSE LET analyzed == _analyze(self, lht_engine, target)
             IN  IF analyzed.status = "success"
                 THEN [raises |-> FALSE, value |-> analyzed.analysis,
                       lht_cache |-> IF cache
                                     THEN (reference :> analyzed.analysis) @@ cached
                                     ELSE cached,
                       ran |-> TRUE]
                 ELSE [raises |-> TRUE, value |-> ValueError,
                       lht_cache |-> cached, ran |-> FALSE]

\* The references analyze_passage is called with: verses and a range of
\* the stores, one with quotes around it, a verse of no store, and
\* references that do not parse.
MemoryReferences ==
    { "John 19:30", "\"John 19:30\"", "John 19:30-31", "Genesis 1:1",
      "Mark 1:1", "John 19", "" }

\* At most MaxAnalyses runs of telos_run are observed.
MaxAnalyses == 2

\* A call of analyze_passage, from its call to its return or its raise.
\* history records the runs of telos_run.
AnalyzePassage ==
    \E reference \in MemoryReferences : \E cache \in BOOLEAN :
        \E call \in { analyze_passage(layer0, engine, lht_cache, reference, cache) } :
            /\ Len(history) + (IF call.ran THEN 1 ELSE 0) <= MaxAnalyses
            /\ args' = [reference |-> reference, cache |-> cache]
            /\ pc' = IF call.raises THEN "raised" ELSE "done"
            /\ result' = call.value
            /\ lht_cache' = call.lht_cache
            /\ history' = IF call.ran
                          THEN Append(history, [reference |-> QueryTarget(reference)])
                          ELSE history
            /\ engine' = SelfAfterCall(engine)
            /\ UNCHANGED <<op, layer0, rest_vars>>

\* load_scripture fills the empty verse store.
LoadScripture ==
    /\ layer0 = <<>>
    /\ layer0' \in VerseStores \ { <<>> }
    /\ UNCHANGED <<engine_vars, lht_cache, rest_vars>>

\* The memory engine after __init__: no verse, nothing cached.
InitMemory ==
    /\ engine = LHTDiagnosticEngine
    /\ pc = "idle"
    /\ op = "analyze_passage"
    /\ args = [reference |-> "", cache |-> FALSE]
    /\ result = NotReturned
    /\ history = <<>>
    /\ layer0 = <<>>
    /\ lht_cache = NoCache
    /\ RestStart

NextMemory == AnalyzePassage \/ LoadScripture

SpecMemory == InitMemory /\ [][NextMemory]_vars

(***************************************************************************)
(* USERS REST API (src/rest_api.py)                                        *)
(*                                                                         *)
(* A JSON value is the string of its JSON text: "30", "30.5", "null",      *)
(* "true", and a JSON string with its quotes.  A JSON object, like the     *)
(* headers and the query parameters of a request, is a function from its   *)
(* keys.  users_db is the sequence of its (key, user) entries in insertion *)
(* order.                                                                  *)
(***************************************************************************)

VALID_API_KEYS == { "demo_key", "claude_key", "test_key" }

\* d.get(key): the value in a sequence of length one, or None as <<>>.
Get(d, key) == IF key \in DOMAIN d THEN <<d[key]>> ELSE <<>>

\* The JSON value is a string / an integer / a number with a fraction.
IsJsonString(v) == Len(v) >= 2 /\ SubSeq(v, 1, 1) = "\""

IsJsonInt(v) ==
    LET digits == IF Len(v) > 0 /\ SubSeq(v, 1, 1) = "-"
                  THEN SubSeq(v, 2, Len(v)) ELSE v
    IN  digits # "" /\ \A i \in 1..Len(digits) : IsDigit(SubSeq(digits, i, i))

IsJsonFloat(v) == ~IsJsonString(v) /\ In(".", v)

\* The Python str of a JSON string.
Content(v) == SubSeq(v, 2, Len(v) - 1)

\* int(s) of a str raises ValueError: s, stripped, is not an optional sign
\* and digits.
SignedIntRaises(s) ==
    LET body == strip(s)
        digits == IF body # "" /\ SubSeq(body, 1, 1) \in { "-", "+" }
                  THEN SubSeq(body, 2, Len(body)) ELSE body
    IN  IntRaises(digits)

\* int(s) of a str that holds an optional sign and digits.
SignedInt(s) ==
    LET body == strip(s)
    IN  IF SubSeq(body, 1, 1) = "-" THEN 0 - int(SubSeq(body, 2, Len(body)))
        ELSE IF SubSeq(body, 1, 1) = "+" THEN int(SubSeq(body, 2, Len(body)))
        ELSE int(body)

\* bool(v) of the Python value of a JSON value.
Truthy(v) ==
    IF IsJsonString(v) THEN Content(v) # ""
    ELSE IF v \in { "null", "false" } THEN FALSE
    ELSE IF v = "true" THEN TRUE
    ELSE \E i \in 1..Len(v) : IsDigit(SubSeq(v, i, i)) /\ SubSeq(v, i, i) # "0"

\* int(data['age']) raises ValueError or TypeError: None, or a str that is
\* no integer.  int() of an int, a float or a bool returns.
AgeIntRaises(v) ==
    IF IsJsonString(v) THEN SignedIntRaises(Content(v))
    ELSE v = "null"

\* int(data['age']): a float is truncated toward zero.
AgeInt(v) ==
    IF IsJsonString(v) THEN SignedInt(Content(v))
    ELSE IF v = "true" THEN 1
    ELSE IF v = "false" THEN 0
    ELSE IF IsJsonFloat(v) THEN SignedInt(SubSeq(v, 1, index(v, ".")))
    ELSE SignedInt(v)

\* The oldest age validate_user_data accepts.
MaxAge == 150

\* '@' not in email raises TypeError: the email is a number or True.
EmailCheckRaises(data) ==
    /\ "email" \in DOMAIN data
    /\ Truthy(data["email"])
    /\ ~IsJsonString(data["email"])

\* validate_user_data raises, on a body that is None or an object.
ValidateRaises(data, required_fields) ==
    /\ data # <<>>
    /\ \A i \in DOMAIN required_fields : required_fields[i] \in DOMAIN data
    /\ EmailCheckRaises(data)

\* validate_user_data: the error message, or None.  A body that is None
\* is the empty object here: 'not data' holds of both.
validate_user_data(data, required_fields) ==
    LET missing_fields == SelectSeq(required_fields,
                                    LAMBDA field : field \notin DOMAIN data)
    IN  IF data = <<>> THEN "Request body required"
        ELSE IF missing_fields # <<>>
             THEN "Missing required fields: " \o join(", ", missing_fields)
        ELSE IF "email" \in DOMAIN data
                /\ (~Truthy(data["email"]) \/ ~In("@", Content(data["email"])))
             THEN "Invalid email format"
        ELSE IF "age" \in DOMAIN data /\ AgeIntRaises(data["age"])
             THEN "Age must be a valid integer"
        ELSE IF "age" \in DOMAIN data
                /\ (AgeInt(data["age"]) < 0 \/ AgeInt(data["age"]) > MaxAge)
             THEN "Age must be between 0 and 150"
        ELSE None

\* The keys of users_db, in insertion order.
Keys(db) == List([i \in DOMAIN db |-> db[i].key])

\* user_id in users_db
HasKey(db, user_id) == \E i \in DOMAIN db : db[i].key = user_id

\* users_db[user_id], for a key of users_db
Lookup(db, user_id) == db[CHOOSE i \in DOMAIN db : db[i].key = user_id].user

\* str(uuid.uuid4()): the n-th identifier drawn, different from the others.
Uuid(n) == "u" \o str(n)

\* create_user at the times t1 <= t2 its two readings of the clock give:
\* the user and users_db with the user under a new key.
create_user(db, count, name, email, age, t1, t2) ==
    LET user_id == Uuid(count + 1)
        user == [id |-> user_id,
                 name |-> name,
                 email |-> email,
                 age |-> age,
                 created_at |-> t1,
                 updated_at |-> t2]
    IN  [user |-> user, users_db |-> Append(db, [key |-> user_id, user |-> user])]

\* get_user: the user in a sequence of length one, or None as <<>>.
get_user(db, user_id) ==
    IF HasKey(db, user_id) THEN <<Lookup(db, user_id)>> ELSE <<>>

\* The fields update_user may set.
allowed_fields == <<"name", "email", "age">>

\* user after user[field] = data[field] for the allowed fields in data.
WithFields(user, data) ==
    [f \in DOMAIN user |->
        IF Member(f, allowed_fields) /\ f \in DOMAIN data THEN data[f] ELSE user[f]]

\* update_user with allowed fields that are all of them.
update_user_AllFields(db, user_id, data, t) ==
    IF ~HasKey(db, user_id) THEN [user |-> <<>>, users_db |-> db]
    ELSE LET user == [[f \in DOMAIN Lookup(db, user_id) |->
                          IF f \in DOMAIN data THEN data[f]
                          ELSE Lookup(db, user_id)[f]]
                         EXCEPT !.updated_at = t]
         IN  [user |-> <<user>>,
              users_db |-> List([i \in DOMAIN db |->
                                    IF db[i].key = user_id
                                    THEN [key |-> user_id, user |-> user]
                                    ELSE db[i]])]

\* update_user at clock reading t: the user (or None) and users_db, the
\* user kept in place under its key.
update_user(db, user_id, data, t) ==
    IF ~HasKey(db, user_id) THEN [user |-> <<>>, users_db |-> db]
    ELSE LET user == [WithFields(Lookup(db, user_id), data)
                         EXCEPT !.updated_at = t]
         IN  [user |-> <<user>>,
              users_db |-> List([i \in DOMAIN db |->
                                    IF db[i].key = user_id
                                    THEN [key |-> user_id, user |-> user]
                                    ELSE db[i]])]

\* delete_user that answers True and deletes nothing.
delete_user_KeepsUser(db, user_id) ==
    IF HasKey(db, user_id)
    THEN [value |-> TRUE, users_db |-> db]
    ELSE [value |-> FALSE, users_db |-> db]

\* delete_user: its return value and users_db.
delete_user(db, user_id) ==
    IF HasKey(db, user_id)
    THEN [value |-> TRUE,
          users_db |-> SelectSeq(db, LAMBDA entry : entry.key # user_id)]
    ELSE [value |-> FALSE, users_db |-> db]

\* list_users with the slice all_users[offset:limit].
list_users_EndAtLimit(db, limit, offset) ==
    LET all_users == List([i \in DOMAIN db |-> db[i].user])
    IN  SubSeq(all_users, min(offset, Len(all_users)) + 1,
               min(limit, Len(all_users)))

\* list_users for limit >= 0 and offset >= 0: all_users[offset:offset + limit]
list_users(db, limit, offset) ==
    LET all_users == List([i \in DOMAIN db |-> db[i].user])
    IN  SubSeq(all_users, min(offset, Len(all_users)) + 1,
               min(offset + limit, Len(all_users)))

\* jsonify(body), status
Response(status, body) == [status |-> status, body |-> body]

\* bool(s) of a value of request.headers.get or request.args.get: a
\* non-empty str.
Given(value) == value # <<>> /\ value[1] # ""

\* The API key require_api_key reads: the header first, then the query.
ApiKey(req) ==
    IF Given(Get(req.headers, "X-API-Key")) THEN Get(req.headers, "X-API-Key")
    ELSE Get(req.args, "api_key")

\* require_api_key that lets a request with an unknown key through.
require_api_key_AnyKey(req) ==
    IF ~Given(ApiKey(req))
    THEN <<Response(401, [error |-> "API key required",
                          message |-> "Include X-API-Key header or ?api_key= parameter"])>>
    ELSE <<>>

\* require_api_key: the response that ends the request, or <<>> when the
\* decorated handler runs.
require_api_key(req) ==
    IF ~Given(ApiKey(req))
    THEN <<Response(401, [error |-> "API key required",
                          message |-> "Include X-API-Key header or ?api_key= parameter"])>>
    ELSE IF ApiKey(req)[1] \notin VALID_API_KEYS
    THEN <<Response(403, [error |-> "Invalid API key"])>>
    ELSE <<>>

\* What a handler leaves: its response, users_db, the identifiers drawn and
\* the last reading of the clock.
Outcome(resp, db, count, time) ==
    [response |-> resp, users_db |-> db, uuid_count |-> count, now |-> time]

DefaultLimit == 100
DefaultOffset == 0
MaxLimit == 1000

\* int(request.args.get(name, default)) raises ValueError
ArgIntRaises(req, name) ==
    name \in DOMAIN req.args /\ SignedIntRaises(req.args[name])

\* int(request.args.get(name, default))
ArgInt(req, name, default) ==
    IF name \in DOMAIN req.args THEN SignedInt(req.args[name]) ELSE default

\* get_users: GET /users
get_users(db, count, time, req) ==
    IF ArgIntRaises(req, "limit") \/ ArgIntRaises(req, "offset")
    THEN Outcome(Response(400, [error |-> "Invalid parameter"]), db, count, time)
    ELSE LET limit == ArgInt(req, "limit", DefaultLimit)
             offset == ArgInt(req, "offset", DefaultOffset)
             users == list_users(db, limit, offset)
         IN  IF limit < 1 \/ limit > MaxLimit
             THEN Outcome(Response(400, [error |-> "Limit must be between 1 and 1000"]),
                          db, count, time)
             ELSE IF offset < 0
             THEN Outcome(Response(400, [error |-> "Offset must be non-negative"]),
                          db, count, time)
             ELSE Outcome(Response(200, [status |-> "success",
                                         count |-> Len(users),
                                         total |-> Len(db),
                                         limit |-> limit,
                                         offset |-> offset,
                                         users |-> users]),
                          db, count, time)

\* create_user_endpoint that creates the user before it validates the body.
create_user_endpoint_CreateFirst(db, count, time, req, t1, t2) ==
    LET data == req.json
        error == validate_user_data(data, <<"name", "email">>)
        created == create_user(db, count, "null", "null", "null", t1, t2)
    IN  IF ValidateRaises(data, <<"name", "email">>)
        THEN Outcome(Response(500, [error |-> "Internal server error"]),
                     db, count, time)
        ELSE IF error # None
        THEN Outcome(Response(400, [error |-> error]),
                     created.users_db, count + 1, t2)
        ELSE Outcome(Response(201, [status |-> "success",
                                    message |-> "User created successfully",
                                    user |-> created.user]),
                     created.users_db, count + 1, t2)

\* create_user_endpoint: POST /users, with the clock readings t1 <= t2
\* create_user makes.
create_user_endpoint(db, count, time, req, t1, t2) ==
    LET data == req.json
        error == validate_user_data(data, <<"name", "email">>)
        age == IF "age" \in DOMAIN data THEN data["age"] ELSE "null"
        created == create_user(db, count, data["name"], data["email"], age, t1, t2)
    IN  IF ValidateRaises(data, <<"name", "email">>)
        THEN Outcome(Response(500, [error |-> "Internal server error"]),
                     db, count, time)
        ELSE IF error # None
        THEN Outcome(Response(400, [error |-> error]), db, count, time)
        ELSE Outcome(Response(201, [status |-> "success",
                                    message |-> "User created successfully",
                                    user |-> created.user]),
                     created.users_db, count + 1, t2)

\* get_user_endpoint: GET /users/<user_id>
get_user_endpoint(db, count, time, req) ==
    LET user == get_user(db, req.user_id)
    IN  IF user = <<>>
        THEN Outcome(Response(404, [error |-> "User not found",
                                    user_id |-> req.user_id]), db, count, time)
        ELSE Outcome(Response(200, [status |-> "success", user |-> user[1]]),
                     db, count, time)

\* update_user_endpoint that stores the body as a new user when the id is
\* not in users_db.
update_user_endpoint_Upsert(db, count, time, req, t) ==
    LET data == req.json
        error == validate_user_data(data, <<>>)
        updated == update_user(db, req.user_id, data, t)
        inserted == Append(db, [key |-> req.user_id,
                                user |-> [id |-> req.user_id,
                                          name |-> "null",
                                          email |-> "null",
                                          age |-> "null",
                                          created_at |-> t,
                                          updated_at |-> t]])
    IN  IF ValidateRaises(data, <<>>)
        THEN Outcome(Response(500, [error |-> "Internal server error"]),
                     db, count, time)
        ELSE IF error # None
        THEN Outcome(Response(400, [error |-> error]), db, count, time)
        ELSE IF updated.user = <<>>
        THEN Outcome(Response(404, [error |-> "User not found",
                                    user_id |-> req.user_id]), inserted, count, t)
        ELSE Outcome(Response(200, [status |-> "success",
                                    message |-> "User updated successfully",
                                    user |-> updated.user[1]]),
                     updated.users_db, count, t)

\* update_user_endpoint: PUT /users/<user_id>, with the clock reading t
\* update_user makes.
update_user_endpoint(db, count, time, req, t) ==
    LET data == req.json
        error == validate_user_data(data, <<>>)
        updated == update_user(db, req.user_id, data, t)
    IN  IF ValidateRaises(data, <<>>)
        THEN Outcome(Response(500, [error |-> "Internal server error"]),
                     db, count, time)
        ELSE IF error # None
        THEN Outcome(Response(400, [error |-> error]), db, count, time)
        ELSE IF updated.user = <<>>
        THEN Outcome(Response(404, [error |-> "User not found",
                                    user_id |-> req.user_id]), db, count, time)
        ELSE Outcome(Response(200, [status |-> "success",
                                    message |-> "User updated successfully",
                                    user |-> updated.user[1]]),
                     updated.users_db, count, t)

\* delete_user_endpoint: DELETE /users/<user_id>
delete_user_endpoint(db, count, time, req) ==
    LET deleted == delete_user(db, req.user_id)
    IN  IF ~deleted.value
        THEN Outcome(Response(404, [error |-> "User not found",
                                    user_id |-> req.user_id]),
                     deleted.users_db, count, time)
        ELSE Outcome(Response(200, [status |-> "success",
                                    message |-> "User deleted successfully",
                                    user_id |-> req.user_id]),
                     deleted.users_db, count, time)

\* The requests made of the API.  A request is its method, its endpoint
\* and the user id of its path, its headers, its query parameters and its
\* JSON body.
Request(method, user_id, auth, params, json) ==
    [method |-> method,
     endpoint |-> IF user_id = "" THEN "/users" ELSE "/users/<user_id>",
     user_id |-> user_id,
     headers |-> auth.headers,
     args |-> auth.args @@ params,
     json |-> json]

\* A valid key in the header.
HeaderAuth == [headers |-> ("X-API-Key" :> "test_key"), args |-> <<>>]

\* The ways a request carries a key, or none.
AuthConfigs ==
    { [headers |-> <<>>, args |-> <<>>],
      HeaderAuth,
      [headers |-> <<>>, args |-> [api_key |-> "demo_key"]],
      [headers |-> ("X-API-Key" :> "invalid_key"), args |-> <<>>],
      [headers |-> <<>>, args |-> [api_key |-> "invalid_key"]],
      [headers |-> <<>>, args |-> [api_key |-> ""]],
      [headers |-> ("X-API-Key" :> ""), args |-> [api_key |-> "claude_key"]],
      [headers |-> ("X-API-Key" :> "invalid_key"), args |-> [api_key |-> "test_key"]] }

Ann == "\"Ann\""
Bob == "\"Bob\""
AnnMail == "\"ann@example.com\""
BobMail == "\"bob@example.com\""

\* Bodies of POST /users: valid ones, and one for each way validation fails.
CreateBodies ==
    { <<>>,
      [name |-> Ann],
      [email |-> AnnMail],
      [name |-> Ann, email |-> AnnMail],
      [name |-> Bob, email |-> BobMail, age |-> "30"],
      [name |-> Ann, email |-> "\"ann.example.com\""],
      [name |-> Ann, email |-> "\"\""],
      [name |-> Ann, email |-> "5"],
      [name |-> Ann, email |-> AnnMail, age |-> "\"invalid\""],
      [name |-> Ann, email |-> AnnMail, age |-> "null"],
      [name |-> Ann, email |-> AnnMail, age |-> "151"],
      [name |-> Ann, email |-> AnnMail, age |-> "-1"],
      [name |-> Bob, email |-> BobMail, age |-> "30.5"] }

\* Bodies of PUT /users/<user_id>.
UpdateBodies ==
    { <<>>,
      [name |-> Bob, age |-> "31", id |-> "\"zz\""],
      [email |-> "\"invalid-email\""],
      [email |-> "5"],
      [age |-> "\"invalid\""],
      [age |-> "200"] }

\* At most MaxUsers users are created, and the clock reads at most MaxTime.
MaxUsers == 2
MaxTime == 1

\* The user ids of the paths: those create_user can draw, and one more.
PathIds == { Uuid(n) : n \in 1..MaxUsers } \cup { "zz" }

\* The limit and offset parameters of GET /users.
PageParams ==
    { l @@ o : l \in { <<>>, [limit |-> "0"], [limit |-> "1"], [limit |-> "1000"],
                       [limit |-> "1001"], [limit |-> "abc"] },
               o \in { <<>>, [offset |-> "1"], [offset |-> "3"], [offset |-> "-1"] } }

\* Every endpoint is asked with a valid key over all the parameters, and
\* with every way of carrying a key over some of them.
GetUsersRequests ==
    { Request("GET", "", HeaderAuth, params, <<>>) : params \in PageParams }
    \cup { Request("GET", "", auth, <<>>, <<>>) : auth \in AuthConfigs }

CreateRequests ==
    { Request("POST", "", HeaderAuth, <<>>, json) : json \in CreateBodies }
    \cup { Request("POST", "", auth, <<>>, json) :
             auth \in AuthConfigs, json \in { [name |-> Ann, email |-> AnnMail] } }

GetUserRequests ==
    { Request("GET", id, HeaderAuth, <<>>, <<>>) : id \in PathIds }
    \cup { Request("GET", Uuid(1), auth, <<>>, <<>>) : auth \in AuthConfigs }

UpdateRequests ==
    { Request("PUT", id, HeaderAuth, <<>>, json) :
        id \in PathIds, json \in UpdateBodies }
    \cup { Request("PUT", id, auth, <<>>, json) :
             id \in { Uuid(1) }, auth \in AuthConfigs,
             json \in { [name |-> Bob, age |-> "31", id |-> "\"zz\""] } }

DeleteRequests ==
    { Request("DELETE", id, HeaderAuth, <<>>, <<>>) : id \in PathIds }
    \cup { Request("DELETE", Uuid(1), auth, <<>>, <<>>) : auth \in AuthConfigs }

\* The decorator: the handler's outcome, or the rejection that leaves all
\* as it is.
Decorated(req, out) ==
    IF require_api_key(req) # <<>>
    THEN Outcome(require_api_key(req)[1], users_db, uuid_count, now)
    ELSE out

\* The API answers req with the outcome out.
Serve(req, out) ==
    /\ out.uuid_count <= MaxUsers
    /\ request' = req
    /\ response' = out.response
    /\ users_db' = out.users_db
    /\ uuid_count' = out.uuid_count
    /\ now' = out.now
    /\ UNCHANGED <<engine_vars, ramah_vars>>

GetUsers ==
    \E req \in GetUsersRequests :
        Serve(req, Decorated(req, get_users(users_db, uuid_count, now, req)))

CreateUser ==
    \E req \in CreateRequests : \E t1 \in now..MaxTime : \E t2 \in t1..MaxTime :
        Serve(req, Decorated(req, create_user_endpoint(users_db, uuid_count, now,
                                                       req, t1, t2)))

GetUser ==
    \E req \in GetUserRequests :
        Serve(req, Decorated(req, get_user_endpoint(users_db, uuid_count, now, req)))

UpdateUser ==
    \E req \in UpdateRequests : \E t \in now..MaxTime :
        Serve(req, Decorated(req, update_user_endpoint(users_db, uuid_count, now,
                                                       req, t)))

DeleteUser ==
    \E req \in DeleteRequests :
        Serve(req, Decorated(req, delete_user_endpoint(users_db, uuid_count, now, req)))

\* The API process: no LHT engine, no verse store, users_db empty.
InitRest ==
    /\ engine = <<>>
    /\ pc = "serving"
    /\ op = "rest_api"
    /\ args = <<>>
    /\ result = NotReturned
    /\ history = <<>>
    /\ layer0 = <<>>
    /\ lht_cache = NoCache
    /\ RestStart

NextRest == GetUsers \/ CreateUser \/ GetUser \/ UpdateUser \/ DeleteUser

SpecRest == InitRest /\ [][NextRest]_vars

(***************************************************************************)
(* Properties                                                              *)
(***************************************************************************)

\* The call of method has returned.
Returned(method) == op = method /\ pc = "done"

\* The lexicon symbols that match text, each with its total score.
ScoredSymbols(text) ==
    LET text_lower == lower(text)
        lex == SYMBOL_LEXICON
    IN  { [symbol |-> lex[i].symbol, score |-> Candidate(lex[i], text, text_lower).score] :
            i \in { j \in DOMAIN lex : \E k \in DOMAIN lex[j].keywords :
                                            In(lex[j].keywords[k], text_lower) } }

\* C1: pattern_seed returns at most 3 seeds, each of total score >= 4, in
\* non-increasing score order, each a distinct lexicon symbol that matched
\* the text; no matching symbol of score >= 4 that was left out scores
\* higher than a returned seed, and fewer than 3 seeds are returned only
\* when fewer than 3 symbols reach score 4.
C1_SeedsAreTopRanked ==
    Returned("pattern_seed") =>
        LET seeds == result
            qualifying == { c \in ScoredSymbols(args.text) : c.score >= 4 }
            returned == { seeds[i].symbol : i \in DOMAIN seeds }
        IN  /\ Len(seeds) <= 3
            /\ \A i \in DOMAIN seeds : seeds[i].score >= 4
            /\ \A i, j \in DOMAIN seeds : i < j => seeds[i].score >= seeds[j].score
            /\ \A i \in DOMAIN seeds :
                   [symbol |-> seeds[i].symbol, score |-> seeds[i].score] \in qualifying
            /\ Cardinality(returned) = Len(seeds)
            /\ \A c \in qualifying :
                   c.symbol \notin returned =>
                       \A i \in DOMAIN seeds : c.score <= seeds[i].score
            /\ Len(seeds) < 3 => Cardinality(qualifying) = Len(seeds)

\* C1 witness: more than 3 symbols reach score 4, 3 seeds are returned, and
\* a matching symbol of score below 4 is left out.
C1_Witness ==
    /\ Returned("pattern_seed")
    /\ Len(result) = 3
    /\ Cardinality({ c \in ScoredSymbols(args.text) : c.score >= 4 }) > 3
    /\ \E c \in ScoredSymbols(args.text) : c.score < 4

\* The text holds a tier-1 pattern.
HasDirectChrist(text) ==
    \E p \in { "crucif", "cross", "finished", "resurrection", "risen" } :
        In(p, lower(text))

\* Some seed's symbol, lowercased, is one of names.
SomeSeedIn(seeds, names) == \E i \in DOMAIN seeds : lower(seeds[i].symbol) \in names

Tier2Names == { "lamb", "blood", "sacrifice", "altar", "priest", "atonement" }

Tier3Names == { "seed", "crown", "king", "son", "shepherd" }

\* C2: gravity_sync returns a score in 0..3 by a strict cascade: 3 whenever
\* the text holds a tier-1 keyword, whatever the seeds; otherwise 2 iff a
\* seed's symbol is in the tier-2 list; otherwise 1 iff a seed's symbol is
\* in the tier-3 list; otherwise 0.
C2_GravityCascade ==
    Returned("gravity_sync") =>
        LET tier1 == HasDirectChrist(args.text)
            tier2 == SomeSeedIn(args.seeds, Tier2Names)
            tier3 == SomeSeedIn(args.seeds, Tier3Names)
        IN  /\ result.score \in 0..3
            /\ result.score = IF tier1 THEN 3
                              ELSE IF tier2 THEN 2
                              ELSE IF tier3 THEN 1
                              ELSE 0

\* C2 witness: a text with a tier-1 keyword, given with a tier-2 seed,
\* scores 3.
C2_Witness ==
    /\ Returned("gravity_sync")
    /\ HasDirectChrist(args.text)
    /\ SomeSeedIn(args.seeds, Tier2Names)
    /\ result.score = 3

\* The number of true entries of a checklist.
TrueCount(checklist) == Cardinality({ k \in DOMAIN checklist : checklist[k] = TRUE })

\* C3: fractal_filter classifies "Fractal" iff at least 3 of the 5 checklist
\* booleans are true and "Likely Feedback" otherwise; the checklist has
\* exactly 5 entries.
C3_FractalIffThree ==
    Returned("fractal_filter") =>
        /\ Cardinality(DOMAIN result.checklist_results) = 5
        /\ \A k \in DOMAIN result.checklist_results :
               result.checklist_results[k] \in BOOLEAN
        /\ result.classification \in { "Fractal", "Likely Feedback" }
        /\ result.classification = "Fractal" <=>
               TrueCount(result.checklist_results) >= 3

\* C3 witness: exactly 3 criteria hold and the classification is "Fractal".
C3_Witness ==
    /\ Returned("fractal_filter")
    /\ TrueCount(result.checklist_results) = 3
    /\ result.classification = "Fractal"

BookKeywords ==
    { "genesis" } \cup
    UNION { { books[i] : i \in DOMAIN books } :
              books \in { COVENANT_BOOKS, LAW_BOOKS, KINGSHIP_BOOKS, WISDOM_BOOKS,
                          GOSPEL_BOOKS, NEW_CREATION_BOOKS } }

\* The reference holds no book keyword.
NoBookMatches(reference) == \A b \in BookKeywords : ~In(b, lower(reference))

\* The text holds no keyword of any lexicon symbol.
NoSymbolMatches(text) ==
    \A i \in DOMAIN SYMBOL_LEXICON : \A k \in DOMAIN SYMBOL_LEXICON[i].keywords :
        ~In(SYMBOL_LEXICON[i].keywords[k], lower(text))

\* A keyword of the stage set occurs in the text.
StageFires(words, text) == \E w \in words : In(w, lower(text))

Stage4Set ==
    { "without", "empty", "nothing", "darkness", "void", "lack", "toil", "night",
      "labor" }

Stage3Set ==
    { "god said", "lord said", "commanded", "spoke", "word", "thus saith", "behold" }

Stage5Set ==
    { "filled", "overflow", "abundance", "multiply", "blessed", "feast", "rest",
      "rejoice", "new" }

AllStagesFire(text) ==
    /\ StageFires(Stage4Set, text)
    /\ StageFires(Stage3Set, text)
    /\ StageFires(Stage5Set, text)

ReportFields ==
    { "reference", "spiral", "quadrants", "pattern_seeds", "echo_traces",
      "gravity_sync", "comp_435", "urim_thummim", "fractal_filter",
      "theological_summary" }

\* C5: telos_run is total: no call ends by an exception, and a call
\* returns one report with all ten fields; where nothing matches, each stage
\* gives its fallback: the default spiral, zero seeds and zero traces,
\* score 0, has_pattern false, "Likely Feedback".
C5_TelosRunIsTotal ==
    /\ pc # "raised"
    /\ Returned("telos_run") =>
           /\ DOMAIN result = ReportFields
           /\ result.reference = args.reference
           /\ result.spiral \in 1..7
           /\ NoBookMatches(args.reference) => result.spiral = 6
           /\ NoSymbolMatches(args.text) =>
                  /\ result.pattern_seeds = <<>>
                  /\ result.echo_traces = <<>>
                  /\ result.fractal_filter.classification = "Likely Feedback"
           /\ (NoSymbolMatches(args.text) /\ ~HasDirectChrist(args.text)) =>
                  result.gravity_sync.score = 0
           /\ ~AllStagesFire(args.text) =>
                  /\ result.comp_435.has_pattern = FALSE
                  /\ result.comp_435.confidence = "Low"

\* C5 witness: a call with an empty reference and an empty text has
\* returned a report made of the fallbacks.
C5_Witness ==
    /\ Returned("telos_run")
    /\ args.reference = ""
    /\ args.text = ""
    /\ result.spiral = 6
    /\ result.pattern_seeds = <<>>
    /\ result.gravity_sync.score = 0
    /\ result.comp_435.has_pattern = FALSE
    /\ result.fractal_filter.classification = "Likely Feedback"

\* The text has no non-blank segment: it holds only full stops and
\* whitespace.
NoNonBlankSegment(text) ==
    \A i \in 1..Len(text) : SubSeq(text, i, i) \in Whitespace \cup { "." }

\* C6: for the empty text, and any text with no non-blank segment,
\* telos_run gives exactly one segment with all four quadrant scores 0,
\* primary quadrant SW, no secondary quadrant, zero seeds, zero traces,
\* gravity score 0, urim and thummim false, and "Likely Feedback" with the
\* criteria theological_load, controls and bidirectional false.
C6_EmptyTextDegenerates ==
    (Returned("telos_run") /\ NoNonBlankSegment(args.text)) =>
        LET q == result.quadrants
        IN  /\ Len(q.segment_scores) = 1
            /\ Len(q.segment_scores[1].scores) = 4
            /\ \A k \in 1..4 : q.segment_scores[1].scores[k].score = 0
            /\ q.primary_quadrant = "SW"
            /\ q.secondary_quadrant = None
            /\ result.pattern_seeds = <<>>
            /\ result.echo_traces = <<>>
            /\ result.gravity_sync.score = 0
            /\ result.urim_thummim.urim = FALSE
            /\ result.urim_thummim.thummim = FALSE
            /\ result.fractal_filter.classification = "Likely Feedback"
            /\ result.fractal_filter.checklist_results.theological_load = FALSE
            /\ result.fractal_filter.checklist_results.controls = FALSE
            /\ result.fractal_filter.checklist_results.bidirectional = FALSE

\* C6 witness: a call with a text of full stops and a blank has returned.
C6_Witness ==
    /\ Returned("telos_run")
    /\ args.text = ". ."
    /\ Len(result.quadrants.segment_scores) = 1

\* The number of the keywords of a quadrant that occur in a segment.
KeywordHits(quad, segment) ==
    LET table == SelectSeq(QUADRANT_INDICATORS, LAMBDA e : e.quad = quad)
        keywords == table[1].keywords
    IN  Cardinality({ keywords[k] : k \in { j \in DOMAIN keywords :
                                              In(keywords[j], lower(segment)) } })

\* C7: for every segment and each of the four quadrants, the recorded score
\* is min(number of the quadrant's keywords that occur in the segment, 3),
\* an integer in 0..3, and every segment has a score for all four quadrants.
C7_QuadrantScoreIsCappedCount ==
    Returned("quad_map") =>
        LET segments == Segments(args.text)
            recorded == result.segment_scores
        IN  /\ Len(recorded) = Len(segments)
            /\ \A i \in DOMAIN recorded :
                   /\ { recorded[i].scores[k].quad : k \in DOMAIN recorded[i].scores }
                          = { "SW", "SE", "NE", "NW" }
                   /\ Len(recorded[i].scores) = 4
                   /\ \A k \in DOMAIN recorded[i].scores :
                          LET hits == KeywordHits(recorded[i].scores[k].quad, segments[i])
                          IN  /\ recorded[i].scores[k].score \in 0..3
                              /\ recorded[i].scores[k].score =
                                     IF hits < 3 THEN hits ELSE 3

\* C7 witness: a segment holds more than 3 keywords of a quadrant, and its
\* recorded score for that quadrant is 3.
C7_Witness ==
    /\ Returned("quad_map")
    /\ \E i \in DOMAIN result.segment_scores :
           \E k \in DOMAIN result.segment_scores[i].scores :
               /\ KeywordHits(result.segment_scores[i].scores[k].quad,
                              Segments(args.text)[i]) > 3
               /\ result.segment_scores[i].scores[k].score = 3

\* C8: comp_435 sets has_pattern true iff each of the three stage sets has
\* a keyword in the text; confidence is "Medium" exactly then and "Low"
\* otherwise; mapping and the stage flags are present exactly then, and the
\* three flags are then all true.
C8_CompressionPattern ==
    Returned("comp_435") =>
        /\ result.has_pattern \in BOOLEAN
        /\ result.has_pattern <=> AllStagesFire(args.text)
        /\ result.confidence = IF result.has_pattern THEN "Medium" ELSE "Low"
        /\ result.has_pattern <=> result.mapping # None
        /\ result.has_pattern <=> result.stages # NoStages
        /\ result.has_pattern =>
               /\ DOMAIN result.stages = { "stage_4", "stage_3", "stage_5" }
               /\ result.stages.stage_4 = TRUE
               /\ result.stages.stage_3 = TRUE
               /\ result.stages.stage_5 = TRUE

\* C8 witness: a text with a keyword of each stage set has the pattern, at
\* confidence "Medium".
C8_Witness ==
    /\ Returned("comp_435")
    /\ AllStagesFire(args.text)
    /\ result.has_pattern = TRUE
    /\ result.confidence = "Medium"

\* C9: assign_spiral returns one of the seven spirals for every reference
\* and never raises; a reference that matches no book keyword, the empty
\* one included, gets the default spiral 6.
C9_SpiralAlwaysAssigned ==
    /\ pc # "raised"
    /\ Returned("assign_spiral") =>
           /\ result \in 1..7
           /\ NoBookMatches(args.reference) => result = 6

\* C9 witness: a non-empty reference with a locator and no book keyword has
\* got spiral 6.
C9_Witness ==
    /\ Returned("assign_spiral")
    /\ args.reference = "Esther 1:1"
    /\ NoBookMatches(args.reference)
    /\ result = 6

\* The reference holds a digit.
GivesNumber(reference) ==
    \E i \in 1..Len(reference) : IsDigit(SubSeq(reference, i, i))

\* The number a reference gives first: its first run of digits.
FirstNumber(reference) ==
    LET p == CHOOSE q \in 1..Len(reference) :
                 /\ IsDigit(SubSeq(reference, q, q))
                 /\ \A r \in 1..(q - 1) : ~IsDigit(SubSeq(reference, r, r))
    IN  int(SubSeq(reference, p, DigitRunEnd(reference, p)))

\* C10: a reference that names Genesis and gives a chapter number gets
\* spiral 1 when the chapter is <= 11 and spiral 2 when it is > 11; the
\* chapter rule applies to no other book (no other reference gets spiral 1).
C10_GenesisChapterRule ==
    Returned("assign_spiral") =>
        /\ (In("genesis", lower(args.reference)) /\ GivesNumber(args.reference)) =>
               result = IF FirstNumber(args.reference) <= 11 THEN 1 ELSE 2
        /\ ~In("genesis", lower(args.reference)) => result # 1

\* The reference begins with the book name, in any case, and the name ends
\* there: the reference names the book.
NamesBook(reference, name) ==
    /\ Len(reference) >= Len(name)
    /\ lower(SubSeq(reference, 1, Len(name))) = name
    /\ Len(reference) = Len(name)
       \/ SubSeq(reference, Len(name) + 1, Len(name) + 1) \in { " ", ":" }

\* C11: assign_spiral gives spiral 6 to every reference that names Matthew,
\* Mark, Luke or John and spiral 7 to every reference that names 1 John,
\* 2 John or 3 John: no epistle is put in spiral 6, and the Gospel of John
\* is not put in spiral 7.
C11_GospelsAndJohnEpistles ==
    Returned("assign_spiral") =>
        /\ (\E g \in { "matthew", "mark", "luke", "john" } :
                NamesBook(args.reference, g)) => result = 6
        /\ (\E e \in { "1 john", "2 john", "3 john" } :
                NamesBook(args.reference, e)) => result = 7

\* C11 witness: the Gospel of John has got spiral 6 where an epistle of
\* John with the same locator gets spiral 7.
C11_Witness ==
    /\ Returned("assign_spiral")
    /\ args.reference = "John 1:1"
    /\ result = 6
    /\ assign_spiral(engine, "1 John 1:1") = 7

\* The number of segments of a mapping assigned to a quadrant.
AssignedCount(mapping, quad) ==
    Cardinality({ k \in DOMAIN mapping.segment_scores :
                    mapping.segment_scores[k].quadrant = quad })

\* The place of a quadrant in the fixed order SW, SE, NE, NW.
QuadOrder(quad) == CHOOSE i \in 1..4 : <<"SW", "SE", "NE", "NW">>[i] = quad

\* Quadrant a ranks before quadrant b: more segments, or as many and an
\* earlier place in the fixed order.
RanksBefore(mapping, a, b) ==
    \/ AssignedCount(mapping, a) > AssignedCount(mapping, b)
    \/ /\ AssignedCount(mapping, a) = AssignedCount(mapping, b)
       /\ QuadOrder(a) < QuadOrder(b)

\* C12: primary is a quadrant of maximal segment count and, among those,
\* the earliest of SW, SE, NE, NW; secondary is the next of the same
\* ranking when its count is > 0 and absent otherwise, so it never equals
\* primary and is absent exactly when one quadrant holds every segment.
C12_PrimaryAndSecondary ==
    Returned("quad_map") =>
        LET quads == { "SW", "SE", "NE", "NW" }
            primary == result.primary_quadrant
            secondary == result.secondary_quadrant
            next == CHOOSE q \in quads \ { primary } :
                        \A o \in quads \ { primary, q } : RanksBefore(result, q, o)
        IN  /\ primary \in quads
            /\ \A o \in quads \ { primary } : RanksBefore(result, primary, o)
            /\ secondary = IF AssignedCount(result, next) > 0 THEN next ELSE None
            /\ secondary # primary
            /\ secondary = None <=>
                   AssignedCount(result, primary) = Len(result.segment_scores)

\* C12 witness: two quadrants hold one segment each, the segment of the
\* later quadrant first in the text; primary is the earlier quadrant SW and
\* secondary the later one.
C12_Witness ==
    /\ Returned("quad_map")
    /\ Len(result.segment_scores) = 2
    /\ result.segment_scores[1].quadrant = "NE"
    /\ result.segment_scores[2].quadrant = "SW"
    /\ result.primary_quadrant = "SW"
    /\ result.secondary_quadrant = "NE"

\* C13: in every report thummim is true iff the gravity score is >= 2; a
\* text with a tier-1 keyword gets score 3, a non-empty christ_patterns
\* list and thummim true, whatever seeds and traces were found.
C13_ThummimIffScoreAtLeastTwo ==
    Returned("telos_run") =>
        /\ result.urim_thummim.thummim \in BOOLEAN
        /\ result.urim_thummim.thummim <=> result.gravity_sync.score >= 2
        /\ HasDirectChrist(args.text) =>
               /\ result.gravity_sync.score = 3
               /\ result.gravity_sync.christ_patterns # <<>>
               /\ result.urim_thummim.thummim = TRUE

\* C13 witness: the report of the passage "Jesus was crucified and rose
\* from the dead." has score 3 and thummim true.
C13_Witness ==
    /\ Returned("telos_run")
    /\ args.text = "Jesus was crucified and rose from the dead."
    /\ result.gravity_sync.score = 3
    /\ result.gravity_sync.christ_patterns = <<"crucif">>
    /\ result.urim_thummim.thummim = TRUE

\* A report with gravity score 2, reached through a tier-2 seed alone, has
\* thummim true.
C13_WitnessTierTwo ==
    /\ Returned("telos_run")
    /\ result.gravity_sync.score = 2
    /\ result.urim_thummim.thummim = TRUE

\* The reference resolves to no passage text: it has no chapter:verse part,
\* its locator does not parse, or the store holds no verse for it.
NotResolved(store, reference) == ~InvokesTelosRun(store, reference)

\* C14: ANALYZE reports every failure to resolve the reference as an
\* error-status result before the pipeline runs: it never raises to its
\* caller, and telos_run is invoked only after a verse was resolved.
C14_AnalyzeFailsFast ==
    /\ pc # "raised"
    /\ history # <<>> => ~NotResolved(layer0, args.reference)
    /\ (Returned("_analyze") /\ NotResolved(layer0, args.reference)) =>
           /\ result.status = "error"
           /\ history = <<>>

\* The key a request carries: that of the X-API-Key header or, when the
\* header carries none, that of the api_key query parameter; <<>> when it
\* carries no key, an empty one counting as none.
CarriedKey(req) ==
    IF "X-API-Key" \in DOMAIN req.headers /\ req.headers["X-API-Key"] # ""
    THEN <<req.headers["X-API-Key"]>>
    ELSE IF "api_key" \in DOMAIN req.args /\ req.args["api_key"] # ""
    THEN <<req.args["api_key"]>>
    ELSE <<>>

\* The step answers a request and leaves users_db as it was.
RejectedWith(status) ==
    /\ response'.status = status
    /\ users_db' = users_db
    /\ uuid_count' = uuid_count

\* C15: a request to /users or /users/<id> that carries no API key is
\* answered 401 and one whose key is not in VALID_API_KEYS is answered 403,
\* in both cases with users_db unchanged; a request whose key is valid, in
\* the header or in the query parameter, is answered neither 401 nor 403.
C15_ApiKeyRequired ==
    [][ /\ request'.endpoint \in { "/users", "/users/<user_id>" }
        /\ request'.method \in { "GET", "POST", "PUT", "DELETE" }
        /\ CarriedKey(request') = <<>> => RejectedWith(401)
        /\ (CarriedKey(request') # <<>>
            /\ CarriedKey(request')[1] \notin { "demo_key", "claude_key", "test_key" })
               => RejectedWith(403)
        /\ (CarriedKey(request') # <<>>
            /\ CarriedKey(request')[1] \in { "demo_key", "claude_key", "test_key" })
               => response'.status \notin { 401, 403 } ]_vars

\* C15 witness: a DELETE of a stored user with a key that is not valid was
\* answered 403 and the user is still stored.
C15_Witness ==
    /\ request # NoRequest
    /\ request.method = "DELETE"
    /\ CarriedKey(request) = <<"invalid_key">>
    /\ response.status = 403
    /\ HasKey(users_db, request.user_id)

\* The step serves a request that passed authentication.
Authenticated == response'.status \notin { 401, 403 }

\* db2 is db1 without the user stored under user_id: that key is gone and
\* every other key holds the user it held.
RemovedExactly(db1, db2, user_id) ==
    /\ ~HasKey(db2, user_id)
    /\ Len(db2) = Len(db1) - 1
    /\ \A i \in DOMAIN db1 :
           db1[i].key # user_id =>
               /\ HasKey(db2, db1[i].key)
               /\ Lookup(db2, db1[i].key) = db1[i].user

\* C16: deleting a user that exists returns True (HTTP 200) and removes
\* exactly that user from users_db, after which get_user on its id returns
\* None (HTTP 404) and a second delete of the id returns False (HTTP 404)
\* and changes nothing; deleting an id that is not in users_db returns False
\* (HTTP 404) and changes nothing.
C16_DeleteRemovesExactlyThatUser ==
    [][ (request'.method = "DELETE" /\ Authenticated) =>
          LET id == request'.user_id
              again == Request("DELETE", id, HeaderAuth, <<>>, <<>>)
              fetch == Request("GET", id, HeaderAuth, <<>>, <<>>)
          IN  /\ HasKey(users_db, id) =>
                    /\ delete_user(users_db, id).value = TRUE
                    /\ response'.status = 200
                    /\ RemovedExactly(users_db, users_db', id)
                    /\ get_user(users_db', id) = <<>>
                    /\ get_user_endpoint(users_db', uuid_count', now', fetch)
                           .response.status = 404
                    /\ delete_user(users_db', id)
                           = [value |-> FALSE, users_db |-> users_db']
                    /\ delete_user_endpoint(users_db', uuid_count', now', again)
                           .response.status = 404
                    /\ delete_user_endpoint(users_db', uuid_count', now', again)
                           .users_db = users_db'
              /\ ~HasKey(users_db, id) =>
                    /\ delete_user(users_db, id).value = FALSE
                    /\ response'.status = 404
                    /\ users_db' = users_db ]_vars

\* C16 witness: the first of two stored users was deleted after other
\* operations, the answer was 200 and only the second user is left.
C16_Witness ==
    /\ request # NoRequest
    /\ request.method = "DELETE"
    /\ request.user_id = Uuid(1)
    /\ response.status = 200
    /\ uuid_count = 2
    /\ Keys(users_db) = <<Uuid(2)>>

\* new is old with only those of name, email and age that data holds set to
\* data's values, whatever updated_at became.
OnlyGivenFieldsChanged(old, new, data) ==
    /\ DOMAIN new = DOMAIN old
    /\ new.id = old.id
    /\ new.created_at = old.created_at
    /\ \A f \in { "name", "email", "age" } :
           new[f] = IF f \in DOMAIN data THEN data[f] ELSE old[f]

\* db2 is db1 with the user under user_id updated from data in place: the
\* same keys in the same order, and every other user as it was.
UpdatedInPlace(db1, db2, user_id, data) ==
    /\ Keys(db2) = Keys(db1)
    /\ \A i \in DOMAIN db1 :
           IF db1[i].key = user_id
           THEN OnlyGivenFieldsChanged(db1[i].user, db2[i].user, data)
           ELSE db2[i] = db1[i]

\* C17: update_user on an existing user changes only those of the fields
\* name, email and age that are present in the request, plus updated_at:
\* id, created_at and every absent field keep their values, the user stays
\* under the same key and every other user in users_db is unchanged.  This
\* holds of the update a PUT makes and of update_user on every body.
C17_UpdateChangesOnlyGivenFields ==
    [][ /\ (request'.method = "PUT" /\ response'.status = 200) =>
              /\ UpdatedInPlace(users_db, users_db', request'.user_id, request'.json)
              /\ response'.body.user = Lookup(users_db', request'.user_id)
              /\ Lookup(users_db', request'.user_id).updated_at = now'
        /\ (request'.method = "PUT" /\ HasKey(users_db, request'.user_id)) =>
              \A data \in UpdateBodies :
                  UpdatedInPlace(users_db,
                                 update_user(users_db, request'.user_id, data, now')
                                     .users_db,
                                 request'.user_id, data) ]_vars

\* C17 witness: the first of two users, created with name Ann, was updated
\* by a request with a name, an age and an id: its name is now Bob, its id
\* and its email are what they were, and the second user is stored after it.
C17_Witness ==
    /\ request # NoRequest
    /\ request.method = "PUT"
    /\ request.json = [name |-> Bob, age |-> "31", id |-> "\"zz\""]
    /\ response.status = 200
    /\ Keys(users_db) = <<Uuid(1), Uuid(2)>>
    /\ users_db[1].user.id = Uuid(1)
    /\ users_db[1].user.name = Bob
    /\ users_db[1].user.age = "31"
    /\ users_db[1].user.email = AnnMail
    /\ request.user_id = Uuid(1)

\* The JSON value is an integer in 0..150.
IsAgeInRange(v) == IsJsonInt(v) /\ SignedInt(v) >= 0 /\ SignedInt(v) <= 150

\* The body fails validation: it is empty, or (on create) has no name or no
\* email, or its email is a string without '@', or its age is not an integer
\* or is outside 0..150.
FailsValidation(data, creating) ==
    \/ data = <<>>
    \/ creating /\ ("name" \notin DOMAIN data \/ "email" \notin DOMAIN data)
    \/ /\ "email" \in DOMAIN data
       /\ IsJsonString(data["email"])
       /\ ~In("@", Content(data["email"]))
    \/ "age" \in DOMAIN data /\ ~IsAgeInRange(data["age"])

\* C18: an authenticated create or update request whose body fails
\* validation (empty body, name or email missing on create, email without
\* '@', age that is not an integer or is outside 0..150) is answered 400 and
\* leaves users_db unchanged.
C18_InvalidBodyRejected ==
    [][ (/\ request'.method \in { "POST", "PUT" }
         /\ Authenticated
         /\ FailsValidation(request'.json, request'.method = "POST")) =>
            /\ response'.status = 400
            /\ users_db' = users_db ]_vars

\* The step serves an authenticated PUT for an id that is not in users_db.
PutOnMissingId ==
    /\ request'.method = "PUT"
    /\ Authenticated
    /\ ~HasKey(users_db, request'.user_id)

\* validate_user_data returns None for the body of an update.
PassesValidation(data) ==
    /\ ~ValidateRaises(data, <<>>)
    /\ validate_user_data(data, <<>>) = None

\* C19 as stated: an authenticated PUT /users/<id> for an id that is not in
\* users_db is answered 404 and never creates a user, for every request
\* body.
C19_PutOnMissingIdIs404 ==
    [][ PutOnMissingId =>
            /\ response'.status = 404
            /\ users_db' = users_db ]_vars

\* C19 amended: an authenticated PUT /users/<id> for an id that is not in
\* users_db never creates a user, for every request body, and is answered
\* 404 for every body that passes validate_user_data.
C19_PutOnMissingIdNeverCreates ==
    [][ PutOnMissingId =>
            /\ users_db' = users_db
            /\ uuid_count' = uuid_count
            /\ PassesValidation(request'.json) => response'.status = 404 ]_vars

\* C19 witness: with a user stored, a PUT with a valid body for an id that
\* is not in users_db was answered 404.
C19_Witness ==
    /\ request # NoRequest
    /\ request.method = "PUT"
    /\ PassesValidation(request.json)
    /\ response.status = 404
    /\ users_db # <<>>
    /\ ~HasKey(users_db, request.user_id)

\* The step serves an authenticated GET /users whose limit and offset, where
\* given, are integers.
PagedGet ==
    /\ request'.method = "GET"
    /\ request'.endpoint = "/users"
    /\ Authenticated
    /\ \A name \in { "limit", "offset" } :
           name \in DOMAIN request'.args => IsJsonInt(request'.args[name])

\* The limit and the offset of the request served, 100 and 0 when absent.
AskedLimit ==
    IF "limit" \in DOMAIN request'.args THEN SignedInt(request'.args["limit"])
    ELSE 100

AskedOffset ==
    IF "offset" \in DOMAIN request'.args THEN SignedInt(request'.args["offset"])
    ELSE 0

\* min(limit, max(0, total - offset))
PageCount(limit, offset, total) ==
    LET rest == IF total - offset > 0 THEN total - offset ELSE 0
    IN  IF limit < rest THEN limit ELSE rest

\* C20: an authenticated GET /users with 1 <= limit <= 1000 and offset >= 0
\* reports total = the number of users in users_db and returns
\* count = min(limit, max(0, total - offset)) users, taken in insertion
\* order starting at position offset; a limit below 1 or above 1000, or a
\* negative offset, is answered 400; the request never changes users_db.
C20_Pagination ==
    [][ PagedGet =>
          LET total == Len(users_db)
              count == PageCount(AskedLimit, AskedOffset, total)
          IN  /\ users_db' = users_db
              /\ IF AskedLimit >= 1 /\ AskedLimit <= 1000 /\ AskedOffset >= 0
                 THEN /\ response'.status = 200
                      /\ response'.body.total = total
                      /\ response'.body.count = count
                      /\ Len(response'.body.users) = count
                      /\ \A i \in 1..count :
                             response'.body.users[i] = users_db[AskedOffset + i].user
                 ELSE response'.status = 400 ]_vars

\* C20 witness: with two users stored, GET /users?limit=1&offset=1 returned
\* total 2, count 1 and the second user.
C20_Witness ==
    /\ request # NoRequest
    /\ request.method = "GET"
    /\ request.endpoint = "/users"
    /\ "limit" \in DOMAIN request.args /\ request.args["limit"] = "1"
    /\ "offset" \in DOMAIN request.args /\ request.args["offset"] = "1"
    /\ response.status = 200
    /\ response.body.total = 2
    /\ response.body.count = 1
    /\ response.body.users = <<users_db[2].user>>

\* min(number of the quadrant's keywords in the segment, 3)
CappedHits(quad, segment) ==
    IF KeywordHits(quad, segment) < 3 THEN KeywordHits(quad, segment) ELSE 3

\* quad has the highest capped score for the segment and is the earliest,
\* in the order SW, SE, NE, NW, of the quadrants that have it.
IsEarliestBest(quad, segment) ==
    \A other \in { "SW", "SE", "NE", "NW" } :
        /\ CappedHits(other, segment) <= CappedHits(quad, segment)
        /\ QuadOrder(other) < QuadOrder(quad) =>
               CappedHits(other, segment) < CappedHits(quad, segment)

\* C21: quad_map assigns every segment to the quadrant with the highest
\* capped score for that segment and, on a tie, to the earliest of the tied
\* quadrants in the order SW, SE, NE, NW; a segment that matches no keyword
\* of any quadrant is assigned to SW.
C21_SegmentGoesToEarliestBestQuadrant ==
    Returned("quad_map") =>
        LET segments == Segments(args.text)
            recorded == result.segment_scores
        IN  /\ Len(recorded) = Len(segments)
            /\ \A i \in DOMAIN recorded :
                   /\ IsEarliestBest(recorded[i].quadrant, segments[i])
                   /\ (\A quad \in { "SW", "SE", "NE", "NW" } :
                           KeywordHits(quad, segments[i]) = 0)
                          => recorded[i].quadrant = "SW"

\* C21 witness: SE, NE and NW tie on score 1 for the first segment, which
\* went to SE, and the second segment matches no keyword and went to SW.
C21_Witness ==
    /\ Returned("quad_map")
    /\ args.text = "The law of sin and life. Light"
    /\ CappedHits("SW", "The law of sin and life") = 0
    /\ CappedHits("SE", "The law of sin and life") = 1
    /\ CappedHits("NE", "The law of sin and life") = 1
    /\ CappedHits("NW", "The law of sin and life") = 1
    /\ result.segment_scores[1].quadrant = "SE"
    /\ result.segment_scores[2].quadrant = "SW"

\* The quadrants quad_map assigned to the segments, in segment order.
AssignedSequence(mapping) ==
    [i \in DOMAIN mapping.segment_scores |-> mapping.segment_scores[i].quadrant]

\* collapsed is sequence with every run of equal consecutive entries
\* replaced by one entry.
IsCollapseOf(collapsed, sequence) ==
    \E start \in [DOMAIN collapsed -> DOMAIN sequence] :
        /\ start[1] = 1
        /\ \A k \in DOMAIN collapsed :
               LET end == IF k = Len(collapsed) THEN Len(sequence)
                          ELSE start[k + 1] - 1
               IN  /\ start[k] <= end
                   /\ \A i \in start[k]..end : sequence[i] = collapsed[k]
        /\ \A k \in 1..(Len(collapsed) - 1) : collapsed[k] # collapsed[k + 1]

\* The quadrant sequences of a movement signature that is not "Static".
ArrowSequences(n) == UNION { [1..k -> { "SW", "SE", "NE", "NW" }] : k \in 2..n }

\* C22: the movement signature is the sequence of per-segment assigned
\* quadrants with consecutive duplicates collapsed: it starts with the first
\* segment's quadrant, ends with the last segment's, has no two equal
\* adjacent entries, and is "Static <q>" exactly when all segments are
\* assigned to the same quadrant q; it is never "Unknown".
C22_MovementIsCollapsedSequence ==
    Returned("quad_map") =>
        LET sequence == AssignedSequence(result)
            same == \A i \in DOMAIN sequence : sequence[i] = sequence[1]
        IN  /\ Len(sequence) >= 1
            /\ result.movement # "Unknown"
            /\ same <=> result.movement = "Static " \o sequence[1]
            /\ same <=> \E q \in { "SW", "SE", "NE", "NW" } :
                            result.movement = "Static " \o q
            /\ ~same =>
                  \E collapsed \in ArrowSequences(Len(sequence)) :
                      /\ result.movement = join("→", collapsed)
                      /\ collapsed[1] = sequence[1]
                      /\ collapsed[Len(collapsed)] = sequence[Len(sequence)]
                      /\ IsCollapseOf(collapsed, sequence)

\* C22 witness: three segments assigned SW, SW, NE gave the movement SW→NE.
C22_Witness ==
    /\ Returned("quad_map")
    /\ AssignedSequence(result) = <<"SW", "SW", "NE">>
    /\ result.movement = "SW→NE"

\* C22 witness of the static case: blank text is one segment, movement
\* "Static SW".
C22_WitnessStatic ==
    /\ Returned("quad_map")
    /\ args.text = ". ."
    /\ result.movement = "Static SW"

\* The reason of an evidence entry drawn from the keywords recorded for a
\* quadrant in one segment's scores.
ReasonFrom(scores, quad) ==
    LET of_quad == SelectSeq(scores, LAMBDA e : e.quad = quad)
        keywords == SubSeq(of_quad[1].keywords, 1, min(3, Len(of_quad[1].keywords)))
    IN  IF keywords = <<>> THEN "Tonal match"
        ELSE "Keywords: " \o join(", ", keywords)

\* The score recorded for a quadrant in one segment's scores.
ScoreFor(scores, quad) ==
    (SelectSeq(scores, LAMBDA e : e.quad = quad))[1].score

\* C23: the evidence list of quad_map has exactly one entry for each
\* quadrant that has at least one assigned segment, ordered by segment count
\* descending, and each entry's reason lists the first 3 matched keywords of
\* that quadrant's best example segment (a segment assigned to it with the
\* highest score for it), or "Tonal match" when no keyword of the quadrant
\* fired.
C23_EvidenceFromBestSegment ==
    Returned("quad_map") =>
        LET recorded == result.segment_scores
            evidence == result.evidence
        IN  /\ \A quad \in { "SW", "SE", "NE", "NW" } :
                   Cardinality({ i \in DOMAIN evidence : evidence[i].quadrant = quad })
                       = IF AssignedCount(result, quad) > 0 THEN 1 ELSE 0
            /\ \A i \in 1..(Len(evidence) - 1) :
                   AssignedCount(result, evidence[i].quadrant)
                       >= AssignedCount(result, evidence[i + 1].quadrant)
            /\ \A i \in DOMAIN evidence :
                   LET quad == evidence[i].quadrant
                   IN  \E k \in DOMAIN recorded :
                           /\ recorded[k].quadrant = quad
                           /\ \A j \in DOMAIN recorded :
                                  recorded[j].quadrant = quad =>
                                      ScoreFor(recorded[j].scores, quad)
                                          <= ScoreFor(recorded[k].scores, quad)
                           /\ evidence[i].reason = ReasonFrom(recorded[k].scores, quad)

\* The 0-based positions at which sub occurs in s.
Occurrences(sub, s) ==
    { p \in 0..(Len(s) - Len(sub)) : SubSeq(s, p + 1, p + Len(sub)) = sub }

\* The earliest position at which any keyword of the symbol occurs in the
\* lowercased text, for a symbol that matches.
EarliestMatch(symbol, text) ==
    LET entry == (SelectSeq(SYMBOL_LEXICON, LAMBDA data : data.symbol = symbol))[1]
        positions == UNION { Occurrences(entry.keywords[k], lower(text)) :
                               k \in DOMAIN entry.keywords }
    IN  CHOOSE p \in positions : \A q \in positions : p <= q

\* 3 if the position lies in the first 20% of the length, 2 if in the first
\* 50%, otherwise 1.
PositionScore(position, length) ==
    IF 5 * position < length THEN 3
    ELSE IF 2 * position < length THEN 2
    ELSE 1

\* C24: for every symbol that matches the text, the structural-position
\* score is decided by the earliest position at which any of the symbol's
\* keywords occurs in the text: 3 in the first 20% of the text length, 2 in
\* the first 50%, otherwise 1.  Stated of the seeds pattern_seed returns,
\* which carry the score.
C24_StructuralPositionOfEarliestMatch ==
    Returned("pattern_seed") =>
        \A i \in DOMAIN result :
            result[i].structural_position =
                PositionScore(EarliestMatch(result[i].symbol, args.text),
                              Len(args.text))

\* The number of spiral-role entries of all the traces together.
RECURSIVE TotalRoles(_)
TotalRoles(traces) ==
    IF traces = <<>> THEN 0
    ELSE Len(traces[1].spiral_roles) + TotalRoles(Tail(traces))

\* C25: urim_thummim sets urim true if and only if the average number of
\* populated spiral-role entries per trace, over all the traces given, is
\* >= 5 (the total is at least 5 times the number of traces); with no trace
\* urim is false.
C25_UrimIffAverageAtLeastFive ==
    Returned("urim_thummim") =>
        /\ args.traces = <<>> => result.urim = FALSE
        /\ args.traces # <<>> =>
               (result.urim <=> TotalRoles(args.traces) >= 5 * Len(args.traces))

\* C25 witness: traces of 7 and 3 roles average 5 and urim is true, though
\* one of the traces has fewer than 5 roles.
C25_Witness ==
    /\ Returned("urim_thummim")
    /\ Len(args.traces) = 2
    /\ Len(args.traces[1].spiral_roles) = 7
    /\ Len(args.traces[2].spiral_roles) = 3
    /\ result.urim = TRUE

\* C25 witness of the other side: traces of 7 and 2 roles average 4.5 and
\* urim is false.
C25_WitnessBelow ==
    /\ Returned("urim_thummim")
    /\ Len(args.traces) = 2
    /\ Len(args.traces[1].spiral_roles) = 7
    /\ Len(args.traces[2].spiral_roles) = 2
    /\ result.urim = FALSE

\* The number of populated spiral roles of a trace.
Populated(trace) == Cardinality(DOMAIN trace.spiral_roles)

\* Criteria (b) to (e) of the fractal checklist, of the seeds and traces
\* fractal_filter was called with.
CriteriaBToE ==
    LET checks == result.checklist_results
        seeds == args.seeds
        traces == args.traces
    IN  /\ checks.cross_spiral_reach
            <=> \E i \in DOMAIN traces : Populated(traces[i]) >= 5
        /\ checks.theological_load
            <=> \E i \in DOMAIN seeds : seeds[i].theological_weight >= 2
        /\ checks.controls <=> Len(seeds) >= 2
        /\ checks.bidirectional <=> Len(seeds) >= 1
        /\ DOMAIN checks = { "echo_density", "cross_spiral_reach",
                             "theological_load", "controls", "bidirectional" }

\* C26 as stated: for every list of seeds and every list of traces, empty
\* lists included, each checklist boolean equals its criterion: (a) every
\* trace has >= 3 populated spiral roles; (b) at least one trace has >= 5;
\* (c) at least one seed has theological weight >= 2; (d) at least 2 seeds;
\* (e) at least 1 seed.
C26_ChecklistEqualsCriteria ==
    Returned("fractal_filter") =>
        /\ result.checklist_results.echo_density
            <=> \A i \in DOMAIN args.traces : Populated(args.traces[i]) >= 3
        /\ CriteriaBToE

\* C26 amended: as stated, with (a) there is at least one trace and every
\* trace has >= 3 populated spiral roles.
C26_ChecklistWithNonEmptyDensity ==
    Returned("fractal_filter") =>
        /\ result.checklist_results.echo_density
            <=> /\ Len(args.traces) >= 1
                /\ \A i \in DOMAIN args.traces : Populated(args.traces[i]) >= 3
        /\ CriteriaBToE

\* C26 witness: with one seed and no trace, echo_density is false and
\* bidirectional is true.
C26_Witness ==
    /\ Returned("fractal_filter")
    /\ args.traces = <<>>
    /\ Len(args.seeds) = 1
    /\ result.checklist_results.echo_density = FALSE
    /\ result.checklist_results.bidirectional = TRUE

\* C27: in every report of telos_run the stages are threaded forward:
\* echo_traces has exactly one trace per pattern seed in seed order, each
\* the trace of that seed's symbol placed with the spiral assigned to the
\* run's reference; the GravitySync is computed from the run's text and
\* seeds; urim/thummim and the fractal checklist are computed from exactly
\* the seeds, traces and score stored in the report.
C27_StagesThreadedForward ==
    Returned("telos_run") =>
        LET seeds == result.pattern_seeds
            traces == result.echo_traces
        IN  /\ result.spiral = assign_spiral(engine, args.reference)
            /\ seeds = pattern_seed(engine, args.text)
            /\ Len(traces) = Len(seeds)
            /\ \A i \in DOMAIN seeds :
                   /\ traces[i].symbol = seeds[i].symbol
                   /\ traces[i] = echo_trace(engine, seeds[i].symbol, result.spiral)
            /\ result.gravity_sync = gravity_sync(engine, args.text, seeds)
            /\ result.urim_thummim.urim
                   <=> (traces # <<>> /\ TotalRoles(traces) >= 5 * Len(traces))
            /\ result.urim_thummim.thummim <=> result.gravity_sync.score >= 2
            /\ result.urim_thummim
                   = urim_thummim(engine, seeds, traces, result.gravity_sync)
            /\ result.fractal_filter = fractal_filter(engine, seeds, traces)

\* C27 witness: a run with two seeds, a different symbol each, whose
\* gravity score comes from a seed and not from the text.
C27_Witness ==
    /\ Returned("telos_run")
    /\ Len(result.pattern_seeds) >= 2
    /\ result.pattern_seeds[1].symbol # result.pattern_seeds[2].symbol
    /\ result.echo_traces[2].symbol = result.pattern_seeds[2].symbol
    /\ result.gravity_sync.score = 2

\* The step is a call of analyze_passage (the verse store stays as it is).
CallsAnalyzePassage == layer0' = layer0

\* The analysis of the reference succeeds on the verse store as it is.
AnalysisSucceeds(reference) ==
    /\ ~AnalyzeRaises(layer0, engine, QueryTarget(reference))
    /\ _analyze(layer0, engine, QueryTarget(reference)).status = "success"

\* C28: analyze_passage memoizes by reference string.  A successful analysis
\* with cache=True is stored in lht_cache under the reference, and a later
\* call with cache=True for a cached reference returns the stored result
\* without running the analysis; a failed analysis raises ValueError and
\* adds no entry; a call with cache=False neither reads nor writes
\* lht_cache; an entry, once stored, is never overwritten or evicted.
C28_AnalyzePassageMemoizes ==
    [][ /\ \A k \in DOMAIN lht_cache :
               k \in DOMAIN lht_cache' /\ lht_cache'[k] = lht_cache[k]
        /\ CallsAnalyzePassage =>
             LET reference == args'.reference
                 hit == args'.cache /\ reference \in DOMAIN lht_cache
             IN  /\ hit => /\ pc' = "done"
                           /\ result' = lht_cache[reference]
                           /\ history' = history
                           /\ lht_cache' = lht_cache
                 /\ ~hit => /\ pc' = "done" <=> AnalysisSucceeds(reference)
                            /\ pc' = "raised" <=> ~AnalysisSucceeds(reference)
                 /\ (~hit /\ pc' = "done") =>
                        /\ Len(history') = Len(history) + 1
                        /\ result' = _analyze(layer0, engine,
                                              QueryTarget(reference)).analysis
                        /\ lht_cache' = IF args'.cache
                                        THEN (reference :> result') @@ lht_cache
                                        ELSE lht_cache
                 /\ pc' = "raised" => /\ result' = ValueError
                                      /\ lht_cache' = lht_cache ]_vars

\* C28 witness: John 19:30 was analysed and cached, then Genesis 1:1 was
\* analysed, and the last call, for John 19:30 with cache=True, returned the
\* cached analysis: telos_run ran twice, the second time for Genesis 1:1.
C28_Witness ==
    /\ op = "analyze_passage"
    /\ pc = "done"
    /\ args = [reference |-> "John 19:30", cache |-> TRUE]
    /\ "John 19:30" \in DOMAIN lht_cache
    /\ result = lht_cache["John 19:30"]
    /\ Len(history) = 2
    /\ history[1].reference = "John 19:30"
    /\ history[2].reference = "Genesis 1:1"

\* C29: every trace of a report of telos_run has exactly 7 spiral roles, and
\* in every report the three facts coincide: urim is true, at least one
\* pattern seed was detected, the classification is "Fractal".  With zero
\* seeds the classification is "Likely Feedback", with one or more it is
\* "Fractal" whatever the seeds' weights.
C29_UrimSeedsAndFractalCoincide ==
    Returned("telos_run") =>
        LET seeded == Len(result.pattern_seeds) >= 1
        IN  /\ \A i \in DOMAIN result.echo_traces :
                   Len(result.echo_traces[i].spiral_roles) = 7
            /\ result.urim_thummim.urim <=> seeded
            /\ result.fractal_filter.classification = "Fractal" <=> seeded
            /\ ~seeded => result.fractal_filter.classification = "Likely Feedback"

\* C29 witness: a report with a single seed, of theological weight 1 and a
\* symbol without an arc of its own, has urim true and is "Fractal".
C29_Witness ==
    /\ Returned("telos_run")
    /\ Len(result.pattern_seeds) = 1
    /\ result.pattern_seeds[1].symbol = "HAND"
    /\ result.pattern_seeds[1].theological_weight = 1
    /\ result.urim_thummim.urim = TRUE
    /\ result.fractal_filter.classification = "Fractal"

\* C29 witness without a seed: the report is "Likely Feedback", urim false.
C29_WitnessNoSeed ==
    /\ Returned("telos_run")
    /\ result.pattern_seeds = <<>>
    /\ result.urim_thummim.urim = FALSE
    /\ result.fractal_filter.classification = "Likely Feedback"

\* The tier-1 patterns of GRAVITY-SYNC, the direct Christ events.
TierOnePatterns == { "crucif", "cross", "finished", "resurrection", "risen" }

\* The symbol is among the pattern seeds of the report.
SeedOfReport(symbol) ==
    \E i \in DOMAIN result.pattern_seeds : result.pattern_seeds[i].symbol = symbol

\* The lowercased text of the run contains a tier-1 pattern.
TextHasTierOne == \E pattern \in TierOnePatterns : In(pattern, lower(args.text))

\* C30: in every report of telos_run, if the symbol CROSS is among the
\* pattern seeds then the GravitySync score is 3 and thummim is true, each
\* keyword of CROSS containing a tier-1 pattern; a score of 2 or 1 is only
\* reported for a run whose text contains no tier-1 pattern.
C30_CrossSeedMeansScoreThree ==
    Returned("telos_run") =>
        /\ \A i \in DOMAIN SYMBOL_LEXICON :
               SYMBOL_LEXICON[i].symbol = "CROSS" =>
                   \A k \in DOMAIN SYMBOL_LEXICON[i].keywords :
                       \E pattern \in TierOnePatterns :
                           In(pattern, SYMBOL_LEXICON[i].keywords[k])
        /\ SeedOfReport("CROSS") =>
               /\ result.gravity_sync.score = 3
               /\ result.urim_thummim.thummim = TRUE
        /\ result.gravity_sync.score \in { 1, 2 } => ~TextHasTierOne
        /\ TextHasTierOne => result.gravity_sync.score = 3

\* C30 witness: CROSS and the strong type LAMB are both among the seeds of
\* a report, whose score is 3 and whose thummim is true.
C30_Witness ==
    /\ Returned("telos_run")
    /\ SeedOfReport("CROSS")
    /\ SeedOfReport("LAMB")
    /\ result.gravity_sync.score = 3
    /\ result.urim_thummim.thummim = TRUE

\* C30 witness of the lower scores: a report of score 2 for a text without
\* a tier-1 pattern.
C30_WitnessScoreTwo ==
    /\ Returned("telos_run")
    /\ result.gravity_sync.score = 2
    /\ ~TextHasTierOne
====
